---------------------------- MODULE Spec2Model ----------------------------
(***************************************************************************)
(* SecureShare: client-side file encryption vault.                         *)
(*                                                                         *)
(* The module models the encryption engine (deriveKey, encryptFile,        *)
(* decryptFile, calculateChecksum), the Supabase storage adapter            *)
(* (storeEncryptedFileInDB, getEncryptedFileFromDB) and the two UI          *)
(* handlers that drive them (handleUpload, handleDownload), sharing         *)
(* (handleShare, shareFile, the accessible_files view) and the local        *)
(* IndexedDB adapter (storage.ts).                                          *)
(*                                                                         *)
(* Data representation                                                     *)
(*   - a byte buffer (ArrayBuffer, Uint8Array) is a sequence over 0..255;   *)
(*   - a JavaScript string that the code converts (a password, base64 text, *)
(*     a hex checksum, a database text value) is the sequence of its        *)
(*     UTF-16 code units; strings the code only passes along (file names,   *)
(*     error messages) are TLA+ strings;                                    *)
(*   - a CryptoKey is opaque to the program (extractable = false): it is a  *)
(*     record of its algorithm, its length and its bits.                    *)
(*                                                                         *)
(* Platform primitives (Web Crypto, the random source) are not code of the  *)
(* repository.  They are modelled by small deterministic functions with the *)
(* shape of the real ones:                                                  *)
(*   - PBKDF2: the key bits are a digest of (password bytes, salt,          *)
(*     iteration count);                                                    *)
(*   - AES-GCM: a length-preserving stream cipher whose keystream depends   *)
(*     on (key, iv), followed by a 16-byte tag computed from (key, iv,      *)
(*     ciphertext); decryption recomputes the tag and rejects on mismatch;  *)
(*   - SHA-256: a 32-byte digest computed from the data;                    *)
(*   - crypto.getRandomValues: an ideal source, no value is drawn twice.    *)
(* The digests are built from polynomial hashes modulo 256: any change of   *)
(* one byte of the input changes the digest.                                *)
(*                                                                         *)
(* Specifications                                                          *)
(*   - Spec: encryptFile and decryptFile called directly, one call at a     *)
(*     time, on blobs as returned or altered in one place;                  *)
(*   - SpecApp: uploads and downloads through FileUpload, FileList and the  *)
(*     Supabase adapter, one operation at a time.  The database's           *)
(*     bytea_output setting is fixed at the start of a behaviour.           *)
(*   - SpecConc: encryptFile and decryptFile invocations that overlap,     *)
(*     each giving up the thread at its awaits.                            *)
(*   - SpecUpload: uploads alone, with two valid passwords;                *)
(*   - SpecShare: the owner of an uploaded file shares it; owner and       *)
(*     recipient sign in, list and download while the clock advances;      *)
(*   - SpecEnter: downloads started from the button and from the Enter     *)
(*     key, executions of handleDownload overlapping;                      *)
(*   - SpecLocal: the IndexedDB adapter (storage.ts), request by request.  *)
(***************************************************************************)
EXTENDS Integers, Sequences, FiniteSets, TLC

(***************************************************************************)
(* Program constants                                                       *)
(***************************************************************************)
SaltLen == 32
IvLen == 12
TagLen == 16
DigestLen == 32
Iterations == 100000
KeyLength == 256
MinPasswordLen == 8

(***************************************************************************)
(* Bounds of the model                                                     *)
(***************************************************************************)
\* longest plaintext, in bytes
MaxPlainLen == 2
\* number of encryptFile calls in one behaviour
MaxEncrypts == 2

ByteSamples == {0, 255}
FileNames == {"a.txt", "b.bin"}

Byte == 0..255

(***************************************************************************)
(* Sequence helpers                                                        *)
(***************************************************************************)
SeqsUpTo(S, n) == UNION {[1..k -> S] : k \in 0..n}

\* Array.prototype.slice / ArrayBuffer.prototype.slice with begin >= 0
Slice(s, from, to) == [i \in 1..(IF to > from THEN to - from ELSE 0) |-> s[from + i]]

Zeros(n) == [i \in 1..n |-> 0]

Pow2(k) == CASE k = 0 -> 1 [] k = 1 -> 2 [] k = 2 -> 4 [] k = 3 -> 8
             [] k = 4 -> 16 [] k = 5 -> 32 [] k = 6 -> 64 [] OTHER -> 128

\* byte b with bit k inverted
FlipBit(b, k) == IF (b \div Pow2(k)) % 2 = 1 THEN b - Pow2(k) ELSE b + Pow2(k)

FlipAt(s, i, k) == [s EXCEPT ![i] = FlipBit(s[i], k)]


(***************************************************************************)
(* Text conversions                                                        *)
(***************************************************************************)
IsHighSurrogate(u) == u >= 55296 /\ u <= 56319
IsLowSurrogate(u) == u >= 56320 /\ u <= 57343

\* UTF-8 bytes of one code point
Utf8OfCodePoint(cp) ==
    IF cp < 128 THEN <<cp>>
    ELSE IF cp < 2048 THEN <<192 + (cp \div 64), 128 + (cp % 64)>>
    ELSE IF cp < 65536
         THEN <<224 + (cp \div 4096), 128 + ((cp \div 64) % 64), 128 + (cp % 64)>>
    ELSE <<240 + (cp \div 262144), 128 + ((cp \div 4096) % 64),
           128 + ((cp \div 64) % 64), 128 + (cp % 64)>>

\* TextEncoder.encode: UTF-8 of a string of UTF-16 code units; a surrogate
\* pair is one code point, an unpaired surrogate is encoded as U+FFFD.
RECURSIVE Utf8From(_, _)
Utf8From(s, i) ==
    IF i > Len(s) THEN <<>>
    ELSE IF IsHighSurrogate(s[i]) /\ i < Len(s) /\ IsLowSurrogate(s[i + 1])
         THEN Utf8OfCodePoint(65536 + (s[i] - 55296) * 1024 + (s[i + 1] - 56320))
              \o Utf8From(s, i + 2)
    ELSE IF IsHighSurrogate(s[i]) \/ IsLowSurrogate(s[i])
         THEN Utf8OfCodePoint(65533) \o Utf8From(s, i + 1)
    ELSE Utf8OfCodePoint(s[i]) \o Utf8From(s, i + 1)

TextEncode(s) == Utf8From(s, 1)

\* one hexadecimal digit, lower case, as a code unit
HexDigit(n) == IF n < 10 THEN 48 + n ELSE 87 + n

\* Number.prototype.toString(16) of a byte
ToString16(b) == IF b < 16 THEN <<HexDigit(b)>>
                 ELSE <<HexDigit(b \div 16), HexDigit(b % 16)>>

\* String.prototype.padStart(2, '0')
PadStart2(s) == IF Len(s) < 2 THEN <<48>> \o s ELSE s

RECURSIVE Join(_)
Join(ss) == IF ss = <<>> THEN <<>> ELSE Head(ss) \o Join(Tail(ss))

\* String.fromCharCode(...bytes): one code unit per argument, ToUint16
FromCharCode(bytes) == [i \in 1..Len(bytes) |-> bytes[i] % 65536]

\* Uint8Array.from(str, c => c.charCodeAt(0)): one element per code unit, ToUint8
CharCodes(str) == [i \in 1..Len(str) |-> str[i] % 256]

\* the base64 alphabet: A-Z a-z 0-9 + /
B64Char(v) == IF v < 26 THEN 65 + v
              ELSE IF v < 52 THEN 71 + v
              ELSE IF v < 62 THEN v - 4
              ELSE IF v = 62 THEN 43 ELSE 47

IsB64Char(c) == \/ c >= 65 /\ c <= 90
                \/ c >= 97 /\ c <= 122
                \/ c >= 48 /\ c <= 57
                \/ c = 43
                \/ c = 47

B64Val(c) == IF c >= 65 /\ c <= 90 THEN c - 65
             ELSE IF c >= 97 /\ c <= 122 THEN c - 71
             ELSE IF c >= 48 /\ c <= 57 THEN c + 4
             ELSE IF c = 43 THEN 62 ELSE 63

\* window.btoa of a binary string (every code unit below 256)
RECURSIVE BtoaFrom(_, _)
BtoaFrom(s, i) ==
    LET n == Len(s) - i + 1 IN
    IF n <= 0 THEN <<>>
    ELSE IF n = 1
         THEN <<B64Char(s[i] \div 4), B64Char((s[i] % 4) * 16), 61, 61>>
    ELSE IF n = 2
         THEN <<B64Char(s[i] \div 4),
                B64Char((s[i] % 4) * 16 + (s[i + 1] \div 16)),
                B64Char((s[i + 1] % 16) * 4), 61>>
    ELSE <<B64Char(s[i] \div 4),
           B64Char((s[i] % 4) * 16 + (s[i + 1] \div 16)),
           B64Char((s[i + 1] % 16) * 4 + (s[i + 2] \div 64)),
           B64Char(s[i + 2] % 64)>> \o BtoaFrom(s, i + 3)

btoa(s) == BtoaFrom(s, 1)

\* the decoded bytes of base64 digits d (padding already removed)
RECURSIVE AtobFrom(_, _)
AtobFrom(d, i) ==
    LET n == Len(d) - i + 1 IN
    IF n <= 1 THEN <<>>
    ELSE IF n = 2
         THEN <<B64Val(d[i]) * 4 + (B64Val(d[i + 1]) \div 16)>>
    ELSE IF n = 3
         THEN <<B64Val(d[i]) * 4 + (B64Val(d[i + 1]) \div 16),
                (B64Val(d[i + 1]) % 16) * 16 + (B64Val(d[i + 2]) \div 4)>>
    ELSE <<B64Val(d[i]) * 4 + (B64Val(d[i + 1]) \div 16),
           (B64Val(d[i + 1]) % 16) * 16 + (B64Val(d[i + 2]) \div 4),
           (B64Val(d[i + 2]) % 4) * 64 + B64Val(d[i + 3])>> \o AtobFrom(d, i + 4)

\* window.atob (forgiving-base64 decode; no white space occurs in the model):
\* up to two '=' are removed when the length is a multiple of 4; a length
\* of 1 modulo 4, or any code unit outside the alphabet, is an
\* InvalidCharacterError.
atob(t) ==
    LET n == Len(t)
        pad == IF n % 4 = 0 /\ n >= 2 /\ t[n] = 61
               THEN (IF t[n - 1] = 61 THEN 2 ELSE 1)
               ELSE 0
        d == SubSeq(t, 1, n - pad)
    IN  IF Len(d) % 4 = 1 \/ \E i \in 1..Len(d) : ~IsB64Char(d[i])
        THEN [ok |-> FALSE, value |-> <<>>]
        ELSE [ok |-> TRUE, value |-> AtobFrom(d, 1)]

(***************************************************************************)
(* The database's bytea columns                                            *)
(***************************************************************************)
\* A JSON string written to a BYTEA column goes through bytea's input
\* function.  A text without a backslash is in its "escape" format and
\* stands for its own bytes.  (btoa produces no backslash.)
ByteaIn(text) == TextEncode(text)

\* one byte in bytea's "escape" output format
ByteaEscape(b) == IF b = 92 THEN <<92, 92>>
                  ELSE IF b < 32 \/ b > 126
                       THEN <<92, 48 + (b \div 64), 48 + ((b \div 8) % 8), 48 + (b % 8)>>
                  ELSE <<b>>

\* A BYTEA column read through the REST interface is the text of bytea's
\* output function: "\x" and two hex digits per byte (bytea_output = hex,
\* the server default), or the escape format (bytea_output = escape).
ByteaOut(bytes, format) ==
    IF format = "hex"
    THEN <<92, 120>> \o Join([i \in 1..Len(bytes) |->
                                <<HexDigit(bytes[i] \div 16), HexDigit(bytes[i] % 16)>>])
    ELSE Join([i \in 1..Len(bytes) |-> ByteaEscape(bytes[i])])


(***************************************************************************)
(* Platform primitives                                                     *)
(***************************************************************************)
\* polynomial hash of a byte sequence at the odd point a, modulo 256
RECURSIVE PolyFrom(_, _, _, _)
PolyFrom(s, a, i, h) ==
    IF i > Len(s) THEN h
    ELSE LET next == (h * a + s[i] + 1) % 256
         IN  IF next >= 0 THEN PolyFrom(s, a, i + 1, next) ELSE 0

Poly(s, a) == PolyFrom(s, a, 1, Len(s) % 256)

\* n digest bytes of a byte sequence
Digest(s, n) ==
    LET h1 == Poly(s, 3)
        h2 == Poly(s, 5)
    IN  [j \in 1..n |-> (h1 * (2 * j + 1) + h2 * j * j + j) % 256]

\* crypto.subtle.digest('SHA-256', data)
Sha256(data) == Digest(data, DigestLen)

\* crypto.getRandomValues(new Uint8Array(n)), the draw numbered k
RandomValues(n, k) == [i \in 1..n |-> (97 * k + 31 * i + 5) % 256]

\* PBKDF2 with SHA-256: the bits of a key of the given length
Pbkdf2(passwordBuffer, salt, iterations, length) ==
    Digest(<<iterations % 256, Len(passwordBuffer) % 256>> \o passwordBuffer
             \o <<Len(salt) % 256>> \o salt,
           length \div 8)

\* the first n bytes of the AES-GCM keystream under (key, iv)
Keystream(key, iv, n) == Digest(<<1, Len(iv) % 256>> \o iv \o key.bits, n)

\* AES-GCM tag (tagLength: 128) over the ciphertext under (key, iv)
GcmTag(key, iv, ct) ==
    Digest(<<2, Len(iv) % 256>> \o iv \o key.bits \o ct, TagLen)

\* crypto.subtle.encrypt({name: 'AES-GCM', iv, tagLength: 128}, key, data):
\* the ciphertext followed by the tag
AesGcmEncrypt(key, iv, data) ==
    LET ks == Keystream(key, iv, Len(data))
        ct == [i \in 1..Len(data) |-> (data[i] + ks[i]) % 256]
    IN  ct \o GcmTag(key, iv, ct)

\* mutant of AesGcmDecrypt: a cipher mode without authentication, the
\* trailing 16 bytes are dropped and never verified
AesGcmDecrypt_Unauthenticated(key, iv, data) ==
    IF Len(data) < TagLen
    THEN [ok |-> FALSE, data |-> <<>>]
    ELSE LET ct == SubSeq(data, 1, Len(data) - TagLen)
             ks == Keystream(key, iv, Len(ct))
         IN  [ok |-> TRUE, data |-> [i \in 1..Len(ct) |-> (ct[i] + 256 - ks[i]) % 256]]

\* crypto.subtle.decrypt({name: 'AES-GCM', iv, tagLength: 128}, key, data):
\* the last 16 bytes are the tag; an input shorter than the tag, or a tag
\* that does not verify, rejects with an OperationError
AesGcmDecrypt(key, iv, data) ==
    IF Len(data) < TagLen
    THEN [ok |-> FALSE, data |-> <<>>]
    ELSE LET ct == SubSeq(data, 1, Len(data) - TagLen)
             tag == SubSeq(data, Len(data) - TagLen + 1, Len(data))
             ks == Keystream(key, iv, Len(ct))
         IN  IF tag = GcmTag(key, iv, ct)
             THEN [ok |-> TRUE,
                   data |-> [i \in 1..Len(ct) |-> (ct[i] + 256 - ks[i]) % 256]]
             ELSE [ok |-> FALSE, data |-> <<>>]

(***************************************************************************)
(* The encryption engine: pure parts                                       *)
(***************************************************************************)
\* mutant of deriveKey: the password does not enter the key
deriveKey_IgnoresPassword(pw, salt) ==
    [algorithm |-> "AES-GCM", length |-> KeyLength,
     bits |-> Pbkdf2(<<>>, salt, Iterations, KeyLength)]

\* deriveKey: PBKDF2 over the UTF-8 bytes of the password; the salt is
\* used as given, whatever its length
deriveKey(pw, salt) ==
    LET passwordBuffer == TextEncode(pw)
    IN  [algorithm |-> "AES-GCM", length |-> KeyLength,
         bits |-> Pbkdf2(passwordBuffer, salt, Iterations, KeyLength)]

generateSalt(k) == RandomValues(SaltLen, k)

\* mutant of generateIV: the same IV at every call
generateIV_Fixed(k) == RandomValues(IvLen, 0)

generateIV(k) == RandomValues(IvLen, k)

\* calculateChecksum: the digest as lower-case hex, two digits per byte
calculateChecksum(data) ==
    LET hashArray == Sha256(data)
    IN  Join([i \in 1..Len(hashArray) |-> PadStart2(ToString16(hashArray[i]))])

\* mutant of SliceAuthTag: the whole buffer taken as the tag
SliceAuthTag_Whole(sealed) == sealed

\* encryptFile, the tag: encryptedData.slice(-16)
SliceAuthTag(sealed) ==
    Slice(sealed, IF Len(sealed) > TagLen THEN Len(sealed) - TagLen ELSE 0, Len(sealed))

\* mutant of SliceCiphertext: the tag left on the ciphertext
SliceCiphertext_WithTag(sealed) == sealed

\* mutant of SliceCiphertext: the split one byte early
SliceCiphertext_OffByOne(sealed) == Slice(sealed, 0, Len(sealed) - TagLen - 1)

\* encryptFile, the ciphertext: encryptedData.slice(0, -16)
SliceCiphertext(sealed) == Slice(sealed, 0, Len(sealed) - TagLen)

\* mutant of AssembleEncryptedFile: originalSize taken from the encrypted
\* buffer instead of the file
AssembleEncryptedFile_SealedSize(ciphertext, iv, salt, authTag, file, timestamp, checksum) ==
    [encryptedData |-> ciphertext,
     iv |-> iv,
     salt |-> salt,
     authTag |-> authTag,
     filename |-> file.name,
     originalSize |-> Len(ciphertext) + Len(authTag),
     timestamp |-> timestamp,
     checksum |-> checksum]

\* encryptFile, the returned object
AssembleEncryptedFile(ciphertext, iv, salt, authTag, file, timestamp, checksum) ==
    [encryptedData |-> ciphertext,
     iv |-> iv,
     salt |-> salt,
     authTag |-> authTag,
     filename |-> file.name,
     originalSize |-> Len(file.bytes),
     timestamp |-> timestamp,
     checksum |-> checksum]

\* mutant of FullEncryptedData: the tag copied to offset 0 and the
\* ciphertext after it
FullEncryptedData_TagFirst(encryptedFile) ==
    encryptedFile.authTag \o encryptedFile.encryptedData

\* decryptFile: the buffer handed to crypto.subtle.decrypt, the ciphertext
\* at offset 0 and the tag after it
FullEncryptedData(encryptedFile) == encryptedFile.encryptedData \o encryptedFile.authTag

IntegrityMessage == "File integrity verification failed - file may be corrupted"
DecryptFailedMessage == "Failed to decrypt file - incorrect password or corrupted data"

\* mutant of ChecksumMatches: only the lengths of the two checksums compared
ChecksumMatches_LengthOnly(decryptedData, encryptedFile) ==
    Len(calculateChecksum(decryptedData)) = Len(encryptedFile.checksum)

\* mutant of ChecksumMatches: the comparison left out
ChecksumMatches_Always(decryptedData, encryptedFile) == TRUE

\* decryptFile, the comparison of the recomputed checksum with the stored one
ChecksumMatches(decryptedData, encryptedFile) ==
    calculateChecksum(decryptedData) = encryptedFile.checksum

\* decryptFile, the returned File
DecryptedFile(decryptedData, encryptedFile) ==
    [kind |-> "returned", bytes |-> decryptedData, name |-> encryptedFile.filename,
     type |-> "application/octet-stream", error |-> ""]

\* mutant of CatchDecrypt: the caught error thrown again as it is
CatchDecrypt_Rethrow(caught) ==
    [kind |-> "thrown", bytes |-> <<>>, name |-> "", type |-> "", error |-> caught]

\* decryptFile, the catch block: whatever was thrown inside the try block
\* is logged and replaced by one Error
CatchDecrypt(caught) ==
    [kind |-> "thrown", bytes |-> <<>>, name |-> "", type |-> "",
     error |-> DecryptFailedMessage]

Pending == [kind |-> "pending", bytes |-> <<>>, name |-> "", type |-> "", error |-> ""]


(***************************************************************************)
(* Inputs                                                                  *)
(***************************************************************************)
\* a File: its name and its content
\* the files a caller encrypts: every content under the first name, the
\* contents of at most one byte under the other
Files ==
    [name : {"a.txt"}, bytes : SeqsUpTo(ByteSamples, MaxPlainLen)]
    \cup [name : FileNames \ {"a.txt"}, bytes : SeqsUpTo(ByteSamples, 1)]

NullFile == [name |-> "", bytes |-> <<>>]

\* "aaaaaaa" followed by the code unit u
Pw(u) == <<97, 97, 97, 97, 97, 97, 97, u>>

\* passwords: ending in "a", in "b", in an unpaired surrogate (U+D800), in
\* the replacement character (U+FFFD)
Passwords == {Pw(97), Pw(98), Pw(55296), Pw(65533)}

BitSamples == {0, 7}

NoKey == [algorithm |-> "", length |-> 0, bits |-> <<>>]

NoBlob == [encryptedData |-> <<>>, iv |-> <<>>, salt |-> <<>>, authTag |-> <<>>,
           filename |-> "", originalSize |-> 0, timestamp |-> 0, checksum |-> <<>>]

Untouched == [field |-> "none", pos |-> 0, bit |-> 0]

\* what may happen to a blob between encryptFile and decryptFile: one bit
\* of the ciphertext, of the tag or of the nonce inverted, the stored
\* checksum changed, or a field of the wrong size
Tamperings(b) ==
    {Untouched}
    \cup [field : {"encryptedData"}, pos : 1..Len(b.encryptedData), bit : BitSamples]
    \cup [field : {"authTag"}, pos : {1, Len(b.authTag)}, bit : BitSamples]
    \cup [field : {"iv"}, pos : {1, Len(b.iv)}, bit : BitSamples]
    \cup [field : {"checksum"}, pos : {1}, bit : {0}]
    \cup [field : {"saltLength", "ivLength", "tagLength"}, pos : {0}, bit : {0, 1}]

\* a sequence one element shorter (how = 0) or one zero byte longer (how = 1)
Resize(s, how) == IF how = 0 THEN SubSeq(s, 1, Len(s) - 1) ELSE Append(s, 0)

Tamper(b, t) ==
    CASE t.field = "encryptedData" ->
            [b EXCEPT !.encryptedData = FlipAt(b.encryptedData, t.pos, t.bit)]
      [] t.field = "authTag" -> [b EXCEPT !.authTag = FlipAt(b.authTag, t.pos, t.bit)]
      [] t.field = "iv" -> [b EXCEPT !.iv = FlipAt(b.iv, t.pos, t.bit)]
      [] t.field = "checksum" -> [b EXCEPT !.checksum = FlipAt(b.checksum, t.pos, t.bit)]
      [] t.field = "saltLength" -> [b EXCEPT !.salt = Resize(b.salt, t.bit)]
      [] t.field = "ivLength" -> [b EXCEPT !.iv = Resize(b.iv, t.bit)]
      [] t.field = "tagLength" -> [b EXCEPT !.authTag = Resize(b.authTag, t.bit)]
      [] OTHER -> b

(***************************************************************************)
(* State                                                                   *)
(***************************************************************************)
VARIABLES
    rngCount,        \* values drawn from crypto.getRandomValues so far
    clock,           \* Date.now()
    suspended,       \* the invocations waiting at an await while another one runs
    sharing,         \* table public.file_shares (share i has id i), FileList's files,
                     \* and the shares whose password has been verified
    idb,             \* the IndexedDB database SecureFileStorage
    selectedFile,    \* FileUpload: the file chosen for encryption
    password,        \* FileUpload: the password typed for encryption
    enc,             \* the encryptFile invocation in progress
    blobs,           \* what the encryptFile invocations returned, with their arguments
                     \* and the key they encrypted with
    dec,             \* the decryptFile invocation in progress, or the last one
    bytea_output,    \* database setting: the text format of a BYTEA value
    user,            \* supabase.auth.getUser(): the signed-in user, "" for none
    encrypted_files, \* table public.encrypted_files; row i has id i
    origin,          \* origin[i]: the index in blobs of the blob stored as row i
    fileUpload,      \* FileUpload: the rest of the component's state
    fileList,        \* FileList: the component's state
    toast,           \* the last toast shown
    saved            \* the last file handed to the browser's download

vars == <<rngCount, clock, suspended, sharing, idb, selectedFile, password, enc, blobs, dec, bytea_output, user,
          encrypted_files, origin, fileUpload, fileList, toast, saved>>

appVars == <<bytea_output, user, encrypted_files, origin, fileUpload, fileList, toast, saved>>

EncIdle == [pc |-> "idle", caller |-> "", file |-> NullFile, password |-> <<>>,
            salt |-> <<>>, iv |-> <<>>, key |-> NoKey, fileBuffer |-> <<>>,
            checksum |-> <<>>, raised |-> "", error |-> ""]

DecIdle == [pc |-> "idle", caller |-> "", src |-> 0, tampering |-> Untouched,
            encryptedFile |-> NoBlob, password |-> <<>>, key |-> NoKey,
            fullEncryptedData |-> <<>>, decryptedData |-> <<>>,
            tagVerified |-> FALSE, checksumVerified |-> FALSE,
            caught |-> "", outcome |-> Pending]

\* cause: the error a collaborator (file, storage, platform) raised in the
\* operation the toast ends, "" for none
NoToast == [title |-> "", description |-> "", cause |-> ""]

\* what getEncryptedFileFromDB has not yet returned
NotFetched == [kind |-> "none", blob |-> NoBlob, error |-> "", raised |-> ""]

\* no handleDownload execution
NoCall == [pc |-> "idle", fileId |-> 0, password |-> <<>>, fetched |-> NotFetched,
           fetchedAt |-> 0, outcome |-> Pending]

\* bound: the invocations that may wait while others run
MaxSuspended == 1

\* no invocation waits
NoneSuspended == [enc |-> {}, dec |-> {}, download |-> {}]

\* no share, no list loaded, no share password verified
NoSharing == [file_shares |-> <<>>, files |-> {}, loadedAt |-> 0, verified |-> {}]

\* IndexedDB: no transaction open; an open one holds the operation it
\* belongs to, the request it waits for and the two stores as its requests
\* have left them
NoTransaction == [mode |-> "none", pc |-> "", id |-> 0, file |-> NoBlob,
                  encrypted_files |-> {}, file_metadata |-> {}]

\* what the last operation of the local adapter settled with
NoResult == [op |-> "", id |-> 0, found |-> FALSE, file |-> NoBlob, error |-> ""]

\* database SecureFileStorage after onupgradeneeded: two empty stores;
\* given records the blobs storeEncryptedFile has returned an id for and
\* no later operation has removed
EmptyIdb == [encrypted_files |-> {}, file_metadata |-> {}, transaction |-> NoTransaction,
             result |-> NoResult, given |-> {}]

Init ==
    /\ rngCount = 0
    /\ clock = 1
    /\ suspended = NoneSuspended
    /\ sharing = NoSharing
    /\ idb = EmptyIdb
    /\ selectedFile \in Files
    /\ password \in Passwords
    /\ enc = EncIdle
    /\ blobs = <<>>
    /\ dec = DecIdle
    /\ bytea_output = "hex"
    /\ user = ""
    /\ encrypted_files = <<>>
    /\ origin = <<>>
    /\ fileUpload = [confirmPassword |-> <<>>, isUploading |-> FALSE, uploadProgress |-> 0]
    /\ fileList = [downloadPassword |-> <<>>, selectedFileId |-> 0, isDownloading |-> FALSE,
                   call |-> NoCall]
    /\ toast = NoToast
    /\ saved = NullFile

(***************************************************************************)
(* encryptFile, one action per await                                       *)
(***************************************************************************)
\* the call: salt and IV are drawn, deriveKey is called (at most
\* MaxEncrypts calls in a behaviour, the failed ones included)
\* mutant of EncBegin: the nonce drawn before the salt
EncBegin_NonceFirst(caller, file, pw) ==
    /\ enc.pc = "idle"
    /\ Len(blobs) < MaxEncrypts
    /\ rngCount < 2 * MaxEncrypts
    /\ enc' = [EncIdle EXCEPT !.pc = "deriveKey", !.caller = caller, !.file = file,
                              !.password = pw,
                              !.salt = generateSalt(rngCount + 2),
                              !.iv = generateIV(rngCount + 1)]
    /\ rngCount' = rngCount + 2

EncBegin(caller, file, pw) ==
    /\ enc.pc = "idle"
    /\ Len(blobs) < MaxEncrypts
    /\ rngCount < 2 * MaxEncrypts
    /\ enc' = [EncIdle EXCEPT !.pc = "deriveKey", !.caller = caller, !.file = file,
                              !.password = pw,
                              !.salt = generateSalt(rngCount + 1),
                              !.iv = generateIV(rngCount + 2)]
    /\ rngCount' = rngCount + 2

\* deriveKey resolved; file.arrayBuffer() is called
EncDerived ==
    /\ enc.pc = "deriveKey"
    /\ enc' = [enc EXCEPT !.pc = "arrayBuffer", !.key = deriveKey(enc.password, enc.salt)]
    /\ UNCHANGED <<rngCount, clock, sharing, idb, suspended, selectedFile, password,
                   blobs, dec, appVars>>

\* the content is read; calculateChecksum is called
EncRead ==
    /\ enc.pc = "arrayBuffer"
    /\ enc' = [enc EXCEPT !.pc = "calculateChecksum", !.fileBuffer = enc.file.bytes]
    /\ UNCHANGED <<rngCount, clock, sharing, idb, suspended, selectedFile, password,
                   blobs, dec, appVars>>

\* the checksum is computed; crypto.subtle.encrypt is called
EncChecksum ==
    /\ enc.pc = "calculateChecksum"
    /\ enc' = [enc EXCEPT !.pc = "encrypt", !.checksum = calculateChecksum(enc.fileBuffer)]
    /\ UNCHANGED <<rngCount, clock, sharing, idb, suspended, selectedFile, password,
                   blobs, dec, appVars>>

\* mutant of EncryptFileResult: the content read returned for the ciphertext
EncryptFileResult_Plaintext(e, now) ==
    LET encryptedData == AesGcmEncrypt(e.key, e.iv, e.fileBuffer)
        authTag == SliceAuthTag(encryptedData)
    IN  AssembleEncryptedFile(e.fileBuffer, e.iv, e.salt, authTag, e.file, now, e.checksum)

\* the value encryptFile returns once crypto.subtle.encrypt has resolved
EncryptFileResult(e, now) ==
    LET encryptedData == AesGcmEncrypt(e.key, e.iv, e.fileBuffer)
        authTag == SliceAuthTag(encryptedData)
        ciphertext == SliceCiphertext(encryptedData)
    IN  AssembleEncryptedFile(ciphertext, e.iv, e.salt, authTag, e.file, now, e.checksum)

\* crypto.subtle.encrypt resolved: the tag is split off and the blob returned
EncSeal ==
    /\ enc.pc = "encrypt"
    /\ blobs' = Append(blobs, [file |-> enc.file, password |-> enc.password,
                               key |-> enc.key,
                               blob |-> EncryptFileResult(enc, clock)])
    /\ enc' = [EncIdle EXCEPT !.pc = IF enc.caller = "direct" THEN "idle" ELSE "returned",
                              !.caller = enc.caller]
    /\ UNCHANGED <<rngCount, clock, sharing, idb, suspended, selectedFile, password, dec, appVars>>

\* what an awaited platform call of encryptFile rejects with
RejectionAt(pc) == IF pc = "arrayBuffer" THEN "NotReadableError" ELSE "OperationError"

\* mutant of EncFail: the rejection caught, and the blob returned with
\* what has been computed so far
EncFail_PartialBlob ==
    /\ enc.pc \in {"deriveKey", "arrayBuffer", "calculateChecksum", "encrypt"}
    /\ blobs' = Append(blobs, [file |-> enc.file, password |-> enc.password,
                               key |-> enc.key,
                               blob |-> AssembleEncryptedFile(<<>>, enc.iv, enc.salt, <<>>,
                                                              enc.file, clock, enc.checksum)])
    /\ enc' = [EncIdle EXCEPT !.pc = IF enc.caller = "direct" THEN "idle" ELSE "returned",
                              !.caller = enc.caller]
    /\ UNCHANGED <<rngCount, clock, sharing, idb, suspended, selectedFile, password, dec, appVars>>

\* mutant of EncFail: the rejection caught and another Error thrown for it
EncFail_Replaced ==
    /\ enc.pc \in {"deriveKey", "arrayBuffer", "calculateChecksum", "encrypt"}
    /\ enc' = [EncIdle EXCEPT !.pc = "thrown", !.caller = enc.caller,
                              !.raised = RejectionAt(enc.pc),
                              !.error = "Failed to encrypt file"]
    /\ UNCHANGED <<rngCount, clock, sharing, idb, suspended, selectedFile, password,
                   blobs, dec, appVars>>

\* an awaited call of encryptFile (deriveKey, file.arrayBuffer,
\* calculateChecksum, crypto.subtle.encrypt) rejects: encryptFile has no
\* try block, its promise rejects with the same error and nothing is
\* returned
EncFail ==
    /\ enc.pc \in {"deriveKey", "arrayBuffer", "calculateChecksum", "encrypt"}
    /\ enc' = [EncIdle EXCEPT !.pc = "thrown", !.caller = enc.caller,
                              !.raised = RejectionAt(enc.pc),
                              !.error = RejectionAt(enc.pc)]
    /\ UNCHANGED <<rngCount, clock, sharing, idb, suspended, selectedFile, password,
                   blobs, dec, appVars>>

\* the caller is done with what encryptFile threw
EncDiscard ==
    /\ enc.pc = "thrown"
    /\ enc.caller = "direct"
    /\ enc' = EncIdle
    /\ UNCHANGED <<rngCount, clock, sharing, idb, suspended, selectedFile, password,
                   blobs, dec, appVars>>

\* encryptFile called on the chosen file with the typed password, while no
\* decryptFile call is in progress
Encrypt ==
    /\ dec.pc = "idle"
    /\ EncBegin("direct", selectedFile, password)
    /\ UNCHANGED <<clock, sharing, idb, suspended, selectedFile, password, blobs, dec, appVars>>

(***************************************************************************)
(* decryptFile, one action per await                                       *)
(***************************************************************************)
DecFinished == dec.pc \in {"returned", "thrown"}

\* the call: deriveKey is called with the blob's salt
DecBegin(caller, src, tampering, encryptedFile, pw) ==
    /\ dec.pc = "idle"
    /\ dec' = [DecIdle EXCEPT !.pc = "deriveKey", !.caller = caller, !.src = src,
                              !.tampering = tampering,
                              !.encryptedFile = encryptedFile, !.password = pw]

\* mutant of DecDerived: the key derived from a new salt instead of the
\* blob's
DecDerived_FreshSalt ==
    /\ dec.pc = "deriveKey"
    /\ dec' = [dec EXCEPT !.pc = "decrypt",
                          !.key = deriveKey(dec.password, generateSalt(rngCount + 1)),
                          !.fullEncryptedData = FullEncryptedData(dec.encryptedFile)]
    /\ UNCHANGED <<rngCount, clock, sharing, idb, suspended, selectedFile, password, enc,
                   blobs, appVars>>

\* deriveKey resolved: ciphertext and tag are joined, crypto.subtle.decrypt is called
DecDerived ==
    /\ dec.pc = "deriveKey"
    /\ dec' = [dec EXCEPT !.pc = "decrypt",
                          !.key = deriveKey(dec.password, dec.encryptedFile.salt),
                          !.fullEncryptedData = FullEncryptedData(dec.encryptedFile)]
    /\ UNCHANGED <<rngCount, clock, sharing, idb, suspended, selectedFile, password, enc,
                   blobs, appVars>>

\* mutant of DecOpen: crypto.subtle.decrypt awaited outside the try block,
\* its rejection reaches the caller as it is
DecOpen_Uncaught ==
    /\ dec.pc = "decrypt"
    /\ LET r == AesGcmDecrypt(dec.key, dec.encryptedFile.iv, dec.fullEncryptedData)
       IN  dec' = IF r.ok
                  THEN [dec EXCEPT !.pc = "calculateChecksum", !.decryptedData = r.data,
                                   !.tagVerified = TRUE]
                  ELSE [dec EXCEPT !.pc = "thrown",
                                   !.outcome = CatchDecrypt_Rethrow("OperationError")]
    /\ UNCHANGED <<rngCount, clock, sharing, idb, suspended, selectedFile, password, enc,
                   blobs, appVars>>

\* crypto.subtle.decrypt settled: on success calculateChecksum is called, a
\* rejection is caught by the catch block
DecOpen ==
    /\ dec.pc = "decrypt"
    /\ LET r == AesGcmDecrypt(dec.key, dec.encryptedFile.iv, dec.fullEncryptedData)
       IN  dec' = IF r.ok
                  THEN [dec EXCEPT !.pc = "calculateChecksum", !.decryptedData = r.data,
                                   !.tagVerified = TRUE]
                  ELSE [dec EXCEPT !.pc = "thrown", !.caught = "OperationError",
                                   !.outcome = CatchDecrypt("OperationError")]
    /\ UNCHANGED <<rngCount, clock, sharing, idb, suspended, selectedFile, password, enc,
                   blobs, appVars>>

\* calculateChecksum resolved: on a mismatch an Error is thrown inside the
\* try block, and caught by the catch block; otherwise the File is returned
DecVerify ==
    /\ dec.pc = "calculateChecksum"
    /\ dec' = IF ChecksumMatches(dec.decryptedData, dec.encryptedFile)
              THEN [dec EXCEPT !.pc = "returned", !.checksumVerified = TRUE,
                               !.outcome = DecryptedFile(dec.decryptedData, dec.encryptedFile)]
              ELSE [dec EXCEPT !.pc = "thrown", !.caught = IntegrityMessage,
                               !.outcome = CatchDecrypt(IntegrityMessage)]
    /\ UNCHANGED <<rngCount, clock, sharing, idb, suspended, selectedFile, password, enc,
                   blobs, appVars>>

\* decryptFile called, while no encryptFile call is in progress, on a blob
\* encryptFile returned: as it is with any password, or tampered with and
\* with the password it was encrypted with
Decrypt ==
    /\ enc.pc = "idle"
    /\ \E src \in 1..Len(blobs) :
         \E t \in Tamperings(blobs[src].blob), pw \in Passwords :
            /\ t # Untouched => pw = blobs[src].password
            /\ DecBegin("direct", src, t, Tamper(blobs[src].blob, t), pw)
    /\ UNCHANGED <<rngCount, clock, sharing, idb, suspended, selectedFile, password, enc,
                   blobs, appVars>>

\* the caller is done with what decryptFile returned or threw
Discard ==
    /\ DecFinished
    /\ dec.caller = "direct"
    /\ dec' = DecIdle
    /\ UNCHANGED <<rngCount, clock, sharing, idb, suspended, selectedFile, password, enc,
                   blobs, appVars>>

Next ==
    \/ Encrypt
    \/ EncDerived
    \/ EncRead
    \/ EncChecksum
    \/ EncSeal
    \/ EncFail
    \/ EncDiscard
    \/ Decrypt
    \/ DecDerived
    \/ DecOpen
    \/ DecVerify
    \/ Discard

Spec == Init /\ [][Next]_vars


(***************************************************************************)
(* The application: FileUpload, FileList and the Supabase adapter          *)
(***************************************************************************)
\* the files and the passwords the user uploads with
UploadFiles == {[name |-> "a.txt", bytes |-> <<>>], [name |-> "b.bin", bytes |-> <<0, 255>>]}

ShortPassword == <<97, 97, 97>>

\* the password fields of the upload form: a valid pair, a mismatch, a
\* password of fewer than 8 characters
UploadPasswords ==
    {[password |-> Pw(97), confirmPassword |-> Pw(97)],
     [password |-> Pw(97), confirmPassword |-> Pw(98)],
     [password |-> ShortPassword, confirmPassword |-> ShortPassword]}

DownloadPasswords == {Pw(97), Pw(98)}

\* the signed-in user, or "" for none
Users == {"", "user-1"}

\* the error of a select: none, no row (PGRST116), any other
SelectErrors == {"", "PGRST116", "other"}

\* the error of the insert: none, or one (42501, refused by row security)
InsertErrors == {"", "42501"}

AppInit ==
    /\ rngCount = 0
    /\ clock = 1
    /\ suspended = NoneSuspended
    /\ sharing = NoSharing
    /\ idb = EmptyIdb
    /\ selectedFile = NullFile
    /\ password = <<>>
    /\ enc = EncIdle
    /\ blobs = <<>>
    /\ dec = DecIdle
    /\ bytea_output \in {"hex", "escape"}
    /\ user \in Users
    /\ encrypted_files = <<>>
    /\ origin = <<>>
    /\ fileUpload = [confirmPassword |-> <<>>, isUploading |-> FALSE, uploadProgress |-> 0]
    /\ fileList = [downloadPassword |-> <<>>, selectedFileId |-> 0, isDownloading |-> FALSE,
                   call |-> NoCall]
    /\ toast = NoToast
    /\ saved = NullFile

\* mutant of validatePassword: the length is not checked
validatePassword_AnyLength(pw, confirmPassword) ==
    IF pw # confirmPassword THEN "Password Mismatch"
    ELSE ""

\* FileUpload.validatePassword: "" when the password passes, else the title
\* of the toast shown
validatePassword(pw, confirmPassword) ==
    IF Len(pw) < MinPasswordLen THEN "Weak Password"
    ELSE IF pw # confirmPassword THEN "Password Mismatch"
    ELSE ""

ValidationDescription(title) ==
    IF title = "Weak Password" THEN "Password must be at least 8 characters long"
    ELSE "Passwords do not match"

\* FileUpload.handleUpload up to its first await, run on a form the user has
\* filled (a file dropped, both password fields typed) while no other
\* operation is in progress and no toast is on the screen
HandleUploadWith(forms) ==
    /\ ~fileUpload.isUploading
    /\ ~fileList.isDownloading
    /\ toast = NoToast
    /\ \E file \in UploadFiles, form \in forms :
         LET invalid == validatePassword(form.password, form.confirmPassword) IN
         /\ selectedFile' = file
         /\ password' = form.password
         /\ IF invalid # ""
            THEN /\ toast' = [title |-> invalid,
                              description |-> ValidationDescription(invalid),
                              cause |-> ""]
                 /\ fileUpload' = [fileUpload EXCEPT
                                      !.confirmPassword = form.confirmPassword]
                 /\ UNCHANGED <<rngCount, enc>>
            ELSE /\ EncBegin("upload", file, form.password)
                 /\ fileUpload' = [confirmPassword |-> form.confirmPassword,
                                   isUploading |-> TRUE, uploadProgress |-> 25]
                 /\ UNCHANGED toast
    /\ UNCHANGED <<clock, sharing, idb, suspended, blobs, dec, bytea_output, user,
                   encrypted_files, origin,
                   fileList, saved>>

HandleUpload == HandleUploadWith(UploadPasswords)

\* storeEncryptedFileInDB, the row inserted: the three binary fields as
\* base64 texts written to BYTEA columns; authTag and checksum are not sent
InsertedRow(encryptedFile, userId, now) ==
    [user_id |-> userId,
     filename |-> encryptedFile.filename,
     file_size |-> encryptedFile.originalSize,
     mime_type |-> "application/octet-stream",
     encrypted_data |-> ByteaIn(btoa(FromCharCode(encryptedFile.encryptedData))),
     iv |-> ByteaIn(btoa(FromCharCode(encryptedFile.iv))),
     salt |-> ByteaIn(btoa(FromCharCode(encryptedFile.salt))),
     created_at |-> now]

\* mutant of StoreError: the insert is made without looking at the user
StoreError_NoUserCheck(userId, insertError) ==
    IF insertError # "" THEN "Failed to store encrypted file"
    ELSE ""

\* storeEncryptedFileInDB: "" when the row was inserted, else the message of
\* the Error thrown
StoreError(userId, insertError) ==
    IF userId = "" THEN "User not authenticated"
    ELSE IF insertError # "" THEN "Failed to store encrypted file"
    ELSE ""

\* handleUpload after encryptFile has returned: storeEncryptedFileInDB, then
\* the success toast and the reset of the form, or the catch block; finally
UploadStore ==
    /\ enc.pc = "returned"
    /\ enc.caller = "upload"
    /\ \E insertError \in InsertErrors :
         LET error == StoreError(user, insertError)
             encryptedFile == blobs[Len(blobs)].blob
         IN  IF error = ""
             THEN /\ encrypted_files' =
                        Append(encrypted_files, InsertedRow(encryptedFile, user, clock))
                  /\ origin' = Append(origin, Len(blobs))
                  /\ toast' = [title |-> "Upload Successful",
                               description |-> selectedFile.name, cause |-> ""]
                  /\ selectedFile' = NullFile
                  /\ password' = <<>>
                  /\ fileUpload' = [confirmPassword |-> <<>>, isUploading |-> FALSE,
                                    uploadProgress |-> 0]
             ELSE /\ toast' = [title |-> "Upload Failed", description |-> error,
                               cause |-> IF user = "" THEN "" ELSE insertError]
                  /\ fileUpload' = [fileUpload EXCEPT !.isUploading = FALSE,
                                                      !.uploadProgress = 0]
                  /\ UNCHANGED <<encrypted_files, origin, selectedFile, password>>
    /\ enc' = EncIdle
    /\ UNCHANGED <<rngCount, clock, sharing, idb, suspended, blobs, dec, bytea_output,
                   user, fileList, saved>>

\* handleUpload after encryptFile has thrown: the catch block shows the
\* message of what was thrown, storeEncryptedFileInDB is not called; finally
UploadFailed ==
    /\ enc.pc = "thrown"
    /\ enc.caller = "upload"
    /\ toast' = [title |-> "Upload Failed", description |-> enc.error,
                 cause |-> enc.raised]
    /\ fileUpload' = [fileUpload EXCEPT !.isUploading = FALSE, !.uploadProgress = 0]
    /\ enc' = EncIdle
    /\ UNCHANGED <<rngCount, clock, sharing, idb, suspended, selectedFile, password,
                   blobs, dec, bytea_output, user,
                   encrypted_files, origin, fileList, saved>>

\* the two accounts of the sharing scenarios
Owner == "user-1"
Recipient == "user-2"

\* auth.users.email
Email(u) ==
    IF u = Owner THEN "owner@example.com"
    ELSE IF u = Recipient THEN "friend@example.com"
    ELSE ""

\* no share joined to a file (the NULL columns of the LEFT JOIN)
NoShare == 0

\* view public.accessible_files as auth.uid() = u sees it: every file
\* joined with each of its shares (or with none), kept when the file is
\* u's own or the share names u as recipient, by id or by email; the rows
\* are given by the file and the share they join
AccessibleRows(u, file_shares) ==
    LET joined ==
            {[id |-> i, share_id |-> k] :
                i \in 1..Len(encrypted_files), k \in 1..Len(file_shares)}
            \cup {[id |-> i, share_id |-> NoShare] : i \in 1..Len(encrypted_files)}
        Joins(r) ==
            IF r.share_id = NoShare
            THEN \A k \in 1..Len(file_shares) :
                    file_shares[k].file_id # r.id
            ELSE file_shares[r.share_id].file_id = r.id
        Where(r) ==
            /\ u # ""
            /\ \/ encrypted_files[r.id].user_id = u
               \/ /\ r.share_id # NoShare
                  /\ \/ file_shares[r.share_id].recipient_id = u
                     \/ file_shares[r.share_id].recipient_email = Email(u)
    IN  {r \in joined : Joins(r) /\ Where(r)}

accessible_files(u) == AccessibleRows(u, sharing.file_shares)

\* a row as a select returns it: every BYTEA column as the text of bytea's
\* output function
SelectedRow(row) ==
    [filename |-> row.filename,
     file_size |-> row.file_size,
     created_at |-> row.created_at,
     encrypted_data |-> ByteaOut(row.encrypted_data, bytea_output),
     iv |-> ByteaOut(row.iv, bytea_output),
     salt |-> ByteaOut(row.salt, bytea_output)]

\* getEncryptedFileFromDB: null when the select on the view does not find
\* exactly one row (.single()), an Error for any other select error; when
\* the view's encrypted_data is the empty text the three texts are read
\* from the table with a second select, which row security lets only the
\* file's owner do;
\* they go through atob, which throws an InvalidCharacterError on a text
\* that is not base64; the authTag returned is a new Uint8Array(16) and the
\* checksum the empty string
getEncryptedFileFromDB(fileId, accessError, fileError) ==
    IF accessError = "PGRST116"
       \/ Cardinality({r \in accessible_files(user) : r.id = fileId}) # 1
    THEN [kind |-> "null", blob |-> NoBlob, error |-> "", raised |-> "PGRST116"]
    ELSE IF accessError # ""
    THEN [kind |-> "thrown", blob |-> NoBlob, error |-> "Failed to fetch encrypted file",
          raised |-> accessError]
    ELSE LET accessibleFile == SelectedRow(encrypted_files[fileId])
             fileData == SelectedRow(encrypted_files[fileId])
             texts == IF accessibleFile.encrypted_data # <<>> THEN accessibleFile
                      ELSE fileData
             encryptedData == atob(texts.encrypted_data)
             iv == atob(texts.iv)
             salt == atob(texts.salt)
         IN  IF /\ accessibleFile.encrypted_data = <<>>
                /\ fileError \/ encrypted_files[fileId].user_id # user
             THEN [kind |-> "thrown", blob |-> NoBlob,
                   error |-> "Failed to fetch encrypted file data", raised |-> "other"]
             ELSE IF ~encryptedData.ok \/ ~iv.ok \/ ~salt.ok
             THEN [kind |-> "thrown", blob |-> NoBlob, error |-> "InvalidCharacterError",
                   raised |-> "InvalidCharacterError"]
             ELSE [kind |-> "blob", error |-> "", raised |-> "",
                   blob |-> [filename |-> accessibleFile.filename,
                             originalSize |-> accessibleFile.file_size,
                             encryptedData |-> CharCodes(encryptedData.value),
                             iv |-> CharCodes(iv.value),
                             salt |-> CharCodes(salt.value),
                             authTag |-> Zeros(TagLen),
                             timestamp |-> accessibleFile.created_at,
                             checksum |-> <<>>]]

\* a handleDownload execution is at one of its awaits
InFlight(call) == call.pc \in {"getEncryptedFileFromDB", "decryptFile"}

\* FileList.handleDownload up to its first await, from the Download button
\* (disabled while the password field is empty or a download is in
\* progress) of one of the files on the screen, while no upload is in
\* progress and no toast is on the screen
HandleDownloadOf(fileIds) ==
    /\ ~fileList.isDownloading
    /\ ~fileUpload.isUploading
    /\ toast = NoToast
    /\ \E fileId \in fileIds, pw \in DownloadPasswords :
         fileList' = [downloadPassword |-> pw, selectedFileId |-> fileId,
                      isDownloading |-> TRUE,
                      call |-> [NoCall EXCEPT !.pc = "getEncryptedFileFromDB",
                                              !.fileId = fileId, !.password = pw]]
    /\ UNCHANGED <<rngCount, clock, sharing, idb, suspended, selectedFile, password, enc,
                   blobs, dec, bytea_output,
                   user, encrypted_files, origin, fileUpload, toast, saved>>

\* the Download button of a file of the table, or of one no longer in it
HandleDownload ==
    /\ encrypted_files # <<>>
    /\ HandleDownloadOf(1..(Len(encrypted_files) + 1))

\* handleDownload, the catch block and finally
DownloadFailed(call, message, cause) ==
    /\ toast' = [title |-> "Download Failed", description |-> message, cause |-> cause]
    /\ fileList' = [fileList EXCEPT !.isDownloading = FALSE, !.call = call]
    /\ UNCHANGED saved

\* getEncryptedFileFromDB settled: decryptFile is called with the blob and
\* the typed password; null and a thrown error end in the catch block
DownloadFetch ==
    /\ fileList.call.pc = "getEncryptedFileFromDB"
    /\ \E accessError \in SelectErrors, fileError \in BOOLEAN :
         LET fetched == getEncryptedFileFromDB(fileList.call.fileId, accessError, fileError)
             call == [fileList.call EXCEPT !.fetched = fetched, !.fetchedAt = clock]
         IN  IF fetched.kind = "blob"
             THEN /\ DecBegin("download", origin[call.fileId], Untouched, fetched.blob,
                              call.password)
                  /\ fileList' = [fileList EXCEPT !.call = [call EXCEPT !.pc = "decryptFile"]]
                  /\ UNCHANGED <<toast, saved>>
             ELSE /\ DownloadFailed([call EXCEPT !.pc = "done"],
                                    IF fetched.kind = "null" THEN "File not found"
                                    ELSE fetched.error,
                                    fetched.raised)
                  /\ UNCHANGED dec
    /\ UNCHANGED <<rngCount, clock, sharing, idb, suspended, selectedFile, password, enc,
                   blobs, bytea_output, user,
                   encrypted_files, origin, fileUpload>>

\* decryptFile settled: the file is handed to the browser and the password
\* field cleared, or the catch block shows what was thrown; finally
DownloadFinish ==
    /\ fileList.call.pc = "decryptFile"
    /\ DecFinished
    /\ dec.caller = "download"
    /\ LET call == [fileList.call EXCEPT !.pc = "done", !.outcome = dec.outcome] IN
       IF dec.outcome.kind = "returned"
       THEN /\ saved' = [name |-> dec.outcome.name, bytes |-> dec.outcome.bytes]
            /\ toast' = [title |-> "Download Successful",
                         description |-> dec.outcome.name, cause |-> ""]
            /\ fileList' = [downloadPassword |-> <<>>, selectedFileId |-> 0,
                            isDownloading |-> FALSE, call |-> call]
       ELSE DownloadFailed(call, dec.outcome.error, "")
    /\ dec' = DecIdle
    /\ UNCHANGED <<rngCount, clock, sharing, idb, suspended, selectedFile, password, enc,
                   blobs, bytea_output, user,
                   encrypted_files, origin, fileUpload>>

\* the toast leaves the screen
Dismiss ==
    /\ toast # NoToast
    /\ toast' = NoToast
    /\ fileList' = [fileList EXCEPT !.call = IF InFlight(@) THEN @ ELSE NoCall]
    /\ UNCHANGED <<rngCount, clock, sharing, idb, suspended, selectedFile, password, enc,
                   blobs, dec, bytea_output,
                   user, encrypted_files, origin, fileUpload, saved>>

\* A download never gets as far as the checksum: DecVerify is no step of
\* a download.
DownloadStopsAtTag == dec.caller = "download" => dec.pc # "calculateChecksum"

AppNext ==
    \/ HandleUpload
    \/ EncDerived
    \/ EncRead
    \/ EncChecksum
    \/ EncSeal
    \/ EncFail
    \/ UploadStore
    \/ UploadFailed
    \/ HandleDownload
    \/ DownloadFetch
    \/ DecDerived
    \/ DecOpen
    \/ DownloadFinish
    \/ Dismiss

SpecApp == AppInit /\ [][AppNext]_vars


(***************************************************************************)
(* Uploads alone, with two passwords (specification SpecUpload)            *)
(***************************************************************************)
\* the forms of UploadPasswords and a second valid pair
TwoPasswordForms ==
    UploadPasswords \cup {[password |-> Pw(98), confirmPassword |-> Pw(98)]}

HandleUploadTwo == HandleUploadWith(TwoPasswordForms)

UploadNext ==
    \/ HandleUploadTwo
    \/ EncDerived
    \/ EncRead
    \/ EncChecksum
    \/ EncSeal
    \/ EncFail
    \/ UploadStore
    \/ UploadFailed
    \/ Dismiss

SpecUpload == AppInit /\ [][UploadNext]_vars


(***************************************************************************)
(* Overlapping invocations (specification SpecConc)                        *)
(*                                                                         *)
(* encryptFile and decryptFile are async functions: an invocation gives up *)
(* the thread at each await, and any other invocation may run until its    *)
(* own next await.  enc and dec hold the invocation of each function whose *)
(* next step is taken; suspended holds the invocations that wait.  The     *)
(* locals of an invocation (key, salt, iv, fileBuffer, checksum, ...) live *)
(* in its own frame; the module has no variable outside the functions but  *)
(* the constants of lines 20-25.                                           *)
(***************************************************************************)
ConcFile == [name |-> "b.bin", bytes |-> <<255>>]

\* the invocations that wait
Waiting == Cardinality(suspended.enc) + Cardinality(suspended.dec)

ConcPasswords == {Pw(97), Pw(98)}

ConcInit ==
    /\ rngCount = 0
    /\ clock = 1
    /\ suspended = NoneSuspended
    /\ sharing = NoSharing
    /\ idb = EmptyIdb
    /\ selectedFile = ConcFile
    /\ password = Pw(97)
    /\ enc = EncIdle
    /\ blobs = <<>>
    /\ dec = DecIdle
    /\ bytea_output = "hex"
    /\ user = ""
    /\ encrypted_files = <<>>
    /\ origin = <<>>
    /\ fileUpload = [confirmPassword |-> <<>>, isUploading |-> FALSE, uploadProgress |-> 0]
    /\ fileList = [downloadPassword |-> <<>>, selectedFileId |-> 0, isDownloading |-> FALSE,
                   call |-> NoCall]
    /\ toast = NoToast
    /\ saved = NullFile

\* encryptFile called, whatever else is in progress
ConcEncrypt ==
    /\ EncBegin("direct", selectedFile, password)
    /\ UNCHANGED <<clock, sharing, idb, suspended, selectedFile, password, blobs, dec, appVars>>

\* decryptFile called on the blob returned last, with one password or the
\* other, whatever else is in progress
ConcDecrypt ==
    /\ blobs # <<>>
    /\ \E pw \in ConcPasswords :
         DecBegin("direct", Len(blobs), Untouched, blobs[Len(blobs)].blob, pw)
    /\ UNCHANGED <<rngCount, clock, sharing, idb, suspended, selectedFile, password, enc,
                   blobs, appVars>>

EncAwaiting(e) == e.pc \in {"deriveKey", "arrayBuffer", "calculateChecksum", "encrypt"}

DecAwaiting(d) == d.pc \in {"deriveKey", "decrypt", "calculateChecksum"}

\* the encryptFile invocation at an await waits, with its locals
EncSuspend ==
    /\ EncAwaiting(enc)
    /\ Waiting < MaxSuspended
    /\ suspended' = [suspended EXCEPT !.enc = @ \cup {enc}]
    /\ enc' = EncIdle
    /\ UNCHANGED <<rngCount, clock, sharing, idb, selectedFile, password, blobs, dec, appVars>>

\* what a waiting encryptFile invocation awaited has settled: it continues
EncResume ==
    /\ enc.pc = "idle"
    /\ \E e \in suspended.enc :
         /\ enc' = e
         /\ suspended' = [suspended EXCEPT !.enc = @ \ {e}]
    /\ UNCHANGED <<rngCount, clock, sharing, idb, selectedFile, password, blobs, dec, appVars>>

\* the decryptFile invocation at an await waits, with its locals
DecSuspend ==
    /\ DecAwaiting(dec)
    /\ dec \notin suspended.dec
    /\ Waiting < MaxSuspended
    /\ suspended' = [suspended EXCEPT !.dec = @ \cup {dec}]
    /\ dec' = DecIdle
    /\ UNCHANGED <<rngCount, clock, sharing, idb, selectedFile, password, enc, blobs, appVars>>

\* mutant of DecResume: key kept in a variable of the module, so that the
\* invocation that continues finds the key derived last
DecResume_SharedKey ==
    /\ dec.pc \in {"idle", "returned", "thrown"}
    /\ \E d \in suspended.dec :
         /\ dec' = [d EXCEPT !.key = dec.key]
         /\ suspended' = [suspended EXCEPT !.dec = @ \ {d}]
    /\ UNCHANGED <<rngCount, clock, sharing, idb, selectedFile, password, enc, blobs, appVars>>

\* what a waiting decryptFile invocation awaited has settled: it continues,
\* once the caller has taken the outcome of the one before
DecResume ==
    /\ dec.pc = "idle"
    /\ \E d \in suspended.dec :
         /\ dec' = d
         /\ suspended' = [suspended EXCEPT !.dec = @ \ {d}]
    /\ UNCHANGED <<rngCount, clock, sharing, idb, selectedFile, password, enc, blobs, appVars>>

ConcNext ==
    \/ ConcEncrypt
    \/ EncDerived
    \/ EncRead
    \/ EncChecksum
    \/ EncSeal
    \/ EncSuspend
    \/ EncResume
    \/ ConcDecrypt
    \/ DecDerived
    \/ DecOpen
    \/ DecVerify
    \/ Discard
    \/ DecSuspend
    \/ DecResume

SpecConc == ConcInit /\ [][ConcNext]_vars


(***************************************************************************)
(* Sharing (specification SpecShare): the owner has uploaded one file,     *)
(* shares it, and owner and recipient sign in, list and download as time   *)
(* passes                                                                  *)
(***************************************************************************)
\* bound: the last instant of the clock
MaxClock == 3

\* the instant a share with an expiry ends at; 0 stands for no expiry
ExpiresAt == 2

SharedFile == [name |-> "b.bin", bytes |-> <<0, 255>>]

\* the access password typed into the share dialog, "" for none
AccessPasswords == {"", "s3cret"}

\* the share dialog as the owner fills it
ShareForms ==
    [recipientEmail : {"", "friend", "friend@example.com", "nobody@example.com"},
     accessPassword : AccessPasswords,
     expiresAt : {0, ExpiresAt}]

\* handleShare's emailRegex.test on the addresses of ShareForms
EmailRegexTest(email) == email \in {"friend@example.com", "nobody@example.com"}

\* shareFile, the select on profiles: the id of the account with this
\* address, "" (null) when there is none
ProfileId(email) ==
    IF email = Email(Owner) THEN Owner
    ELSE IF email = Email(Recipient) THEN Recipient
    ELSE ""

\* shareFile, the row inserted
ShareRow(fileId, shareData) ==
    [file_id |-> fileId,
     owner_id |-> user,
     recipient_email |-> shareData.recipientEmail,
     recipient_id |-> ProfileId(shareData.recipientEmail),
     access_password |-> shareData.accessPassword,
     expires_at |-> shareData.expiresAt]

\* shareFile: "" when the row was inserted, else the message of the Error
\* thrown: 23505 when (file_id, recipient_email) is in the table already,
\* 42501 when row security refuses the insert
shareFile(fileId, shareData) ==
    LET row == ShareRow(fileId, shareData)
        duplicate == \E k \in 1..Len(sharing.file_shares) :
                        /\ sharing.file_shares[k].file_id = row.file_id
                        /\ sharing.file_shares[k].recipient_email = row.recipient_email
        refused == \/ row.owner_id = ""
                   \/ fileId \notin 1..Len(encrypted_files)
                   \/ encrypted_files[fileId].user_id # row.owner_id
    IN  IF refused THEN "Failed to share file"
        ELSE IF duplicate THEN "File is already shared with this user"
        ELSE ""

\* a row of accessible_files as getUserFiles returns it
FileRecord(r, u, file_shares) ==
    [id |-> r.id,
     share_id |-> r.share_id,
     access_type |-> IF encrypted_files[r.id].user_id = u THEN "owner" ELSE "shared",
     requires_share_password |->
         r.share_id # NoShare /\ file_shares[r.share_id].access_password # "",
     expires_at |-> IF r.share_id = NoShare THEN 0
                    ELSE file_shares[r.share_id].expires_at]

\* getUserFiles when file_shares holds these rows
getUserFiles(file_shares) ==
    {FileRecord(r, user, file_shares) : r \in AccessibleRows(user, file_shares)}

\* the state after the owner has uploaded SharedFile
ShareInit ==
    LET salt == generateSalt(1)
        e == [EncIdle EXCEPT !.file = SharedFile, !.password = Pw(97),
                             !.salt = salt, !.iv = generateIV(2),
                             !.key = deriveKey(Pw(97), salt),
                             !.fileBuffer = SharedFile.bytes,
                             !.checksum = calculateChecksum(SharedFile.bytes)]
        encryptedFile == EncryptFileResult(e, 1)
    IN  /\ rngCount = 2
        /\ clock = 1
        /\ suspended = NoneSuspended
        /\ sharing = NoSharing
        /\ idb = EmptyIdb
        /\ selectedFile = NullFile
        /\ password = <<>>
        /\ enc = EncIdle
        /\ blobs = <<[file |-> SharedFile, password |-> Pw(97), key |-> e.key,
                      blob |-> encryptedFile]>>
        /\ dec = DecIdle
        /\ bytea_output \in {"hex", "escape"}
        /\ user = Owner
        /\ encrypted_files = <<InsertedRow(encryptedFile, Owner, 1)>>
        /\ origin = <<1>>
        /\ fileUpload = [confirmPassword |-> <<>>, isUploading |-> FALSE,
                         uploadProgress |-> 0]
        /\ fileList = [downloadPassword |-> <<>>, selectedFileId |-> 0,
                       isDownloading |-> FALSE, call |-> NoCall]
        /\ toast = NoToast
        /\ saved = NullFile

\* time passes
Tick ==
    /\ clock < MaxClock
    /\ clock' = clock + 1
    /\ UNCHANGED <<rngCount, sharing, idb, suspended, selectedFile, password, enc, blobs,
                   dec, appVars>>

\* another account signs in: the page is loaded anew
SignIn ==
    /\ ~fileList.isDownloading
    /\ toast = NoToast
    /\ \E u \in {Owner, Recipient} \ {user} : user' = u
    /\ sharing' = [sharing EXCEPT !.files = {}, !.loadedAt = 0, !.verified = {}]
    /\ fileList' = [downloadPassword |-> <<>>, selectedFileId |-> 0,
                    isDownloading |-> FALSE, call |-> NoCall]
    /\ UNCHANGED <<rngCount, clock, idb, suspended, selectedFile, password, enc, blobs, dec,
                   bytea_output, encrypted_files, origin, fileUpload, toast, saved>>

\* FileList.loadFiles: the list on the screen is what getUserFiles returns
\* now, or stays as it is under a toast when the select fails
LoadFiles ==
    /\ ~fileList.isDownloading
    /\ toast = NoToast
    /\ \E error \in BOOLEAN :
         IF error
         THEN /\ toast' = [title |-> "Error", description |-> "Failed to load file list",
                           cause |-> "other"]
              /\ UNCHANGED sharing
         ELSE /\ sharing' = [sharing EXCEPT !.files = getUserFiles(sharing.file_shares),
                                             !.loadedAt = clock]
              /\ UNCHANGED toast
    /\ UNCHANGED <<rngCount, clock, idb, suspended, selectedFile, password, enc, blobs, dec,
                   bytea_output, user, encrypted_files, origin, fileUpload, fileList, saved>>

\* FileShare.handleShare, from the dialog of a file listed as the user's
\* own; on success the list is loaded again (handleShareComplete)
HandleShare ==
    /\ ~fileList.isDownloading
    /\ toast = NoToast
    /\ \E f \in sharing.files, form \in ShareForms :
         /\ f.access_type = "owner"
         /\ IF form.recipientEmail = ""
            THEN /\ toast' = [title |-> "Email Required",
                              description |-> "Please enter the recipient's email address",
                              cause |-> ""]
                 /\ UNCHANGED sharing
            ELSE IF ~EmailRegexTest(form.recipientEmail)
            THEN /\ toast' = [title |-> "Invalid Email",
                              description |-> "Please enter a valid email address",
                              cause |-> ""]
                 /\ UNCHANGED sharing
            ELSE LET error == shareFile(f.id, form) IN
                 IF error # ""
                 THEN /\ toast' = [title |-> "Share Failed", description |-> error,
                                   cause |-> ""]
                      /\ UNCHANGED sharing
                 ELSE /\ toast' = [title |-> "File Shared Successfully",
                                   description |-> form.recipientEmail, cause |-> ""]
                      /\ LET file_shares ==
                                 Append(sharing.file_shares, ShareRow(f.id, form))
                         IN  sharing' = [sharing EXCEPT
                                            !.file_shares = file_shares,
                                            !.files = getUserFiles(file_shares),
                                            !.loadedAt = clock]
    /\ UNCHANGED <<rngCount, clock, idb, suspended, selectedFile, password, enc, blobs, dec,
                   bytea_output, user, encrypted_files, origin, fileUpload, fileList, saved>>

\* verifySharePassword: whether the share's access_password is the text
\* given; false when the select returns no row the user may see
verifySharePassword(shareId, pw) ==
    /\ shareId \in 1..Len(sharing.file_shares)
    /\ LET data == sharing.file_shares[shareId] IN
       /\ \/ user = data.owner_id
          \/ user = data.recipient_id
          \/ Email(user) = data.recipient_email
       /\ data.access_password = pw

\* verifySharePassword called with a share of the list and a text typed;
\* sharing.verified records the shares it has returned true for
VerifySharePassword ==
    /\ ~fileList.isDownloading
    /\ \E f \in sharing.files, pw \in AccessPasswords \cup {"guess"} :
         /\ f.share_id # NoShare
         /\ f.share_id \notin sharing.verified
         /\ pw # ""
         /\ sharing' = [sharing EXCEPT !.verified =
                           IF verifySharePassword(f.share_id, pw)
                           THEN @ \cup {f.share_id} ELSE @]
    /\ UNCHANGED <<rngCount, clock, idb, suspended, selectedFile, password, enc, blobs, dec,
                   bytea_output, user, encrypted_files, origin, fileUpload, fileList, toast,
                   saved>>

\* the Download button of a file on the screen
HandleDownloadListed == HandleDownloadOf({f.id : f \in sharing.files})

ShareNext ==
    \/ Tick
    \/ SignIn
    \/ LoadFiles
    \/ HandleShare
    \/ VerifySharePassword
    \/ HandleDownloadListed
    \/ DownloadFetch
    \/ DecDerived
    \/ DecOpen
    \/ DownloadFinish
    \/ Dismiss

SpecShare == ShareInit /\ [][ShareNext]_vars


(***************************************************************************)
(* Downloads from the button and from the Enter key (specification         *)
(* SpecEnter): the owner has uploaded one file.  fileList.call and dec     *)
(* are the handleDownload execution whose await settles next; the others   *)
(* in flight wait in suspended.download.                                   *)
(***************************************************************************)
\* the password field as Enter finds it: empty, or one of the passwords
EnterPasswords == DownloadPasswords \cup {<<>>}

\* FileList.handleDownload up to its first await, from the Enter key in the
\* password field of an open dialog: the field may be empty, and the
\* handler runs whatever isDownloading is; an execution in flight goes on
\* beside the new one
HandleDownloadEnter ==
    /\ toast = NoToast
    /\ Cardinality(suspended.download) < MaxSuspended
    /\ \E fileId \in 1..Len(encrypted_files), pw \in EnterPasswords :
         /\ fileList.selectedFileId \in {0, fileId}
         /\ fileList.isDownloading => pw = fileList.downloadPassword
         /\ IF pw = <<>>
            THEN /\ toast' = [title |-> "Password Required",
                              description |-> "Please enter the decryption password",
                              cause |-> ""]
                 /\ fileList' = [fileList EXCEPT !.downloadPassword = pw,
                                                 !.selectedFileId = fileId]
                 /\ UNCHANGED <<suspended, dec>>
            ELSE /\ fileList' = [downloadPassword |-> pw, selectedFileId |-> fileId,
                                 isDownloading |-> TRUE,
                                 call |-> [NoCall EXCEPT
                                             !.pc = "getEncryptedFileFromDB",
                                             !.fileId = fileId, !.password = pw]]
                 /\ IF InFlight(fileList.call)
                    THEN /\ suspended' = [suspended EXCEPT !.download =
                                            @ \cup {[call |-> fileList.call, dec |-> dec]}]
                         /\ dec' = DecIdle
                    ELSE UNCHANGED <<suspended, dec>>
                 /\ UNCHANGED toast
    /\ UNCHANGED <<rngCount, clock, sharing, idb, selectedFile, password, enc, blobs,
                   bytea_output, user, encrypted_files, origin, fileUpload, saved>>

\* the await of another execution settles next
DownloadSwitch ==
    /\ \E w \in suspended.download :
         /\ fileList' = [fileList EXCEPT !.call = w.call]
         /\ dec' = w.dec
         /\ suspended' = [suspended EXCEPT !.download =
                            (@ \ {w}) \cup
                            IF InFlight(fileList.call)
                            THEN {[call |-> fileList.call, dec |-> dec]} ELSE {}]
    /\ UNCHANGED <<rngCount, clock, sharing, idb, selectedFile, password, enc, blobs,
                   bytea_output, user, encrypted_files, origin, fileUpload, toast, saved>>

EnterNext ==
    \/ HandleDownload
    \/ HandleDownloadEnter
    \/ DownloadSwitch
    \/ DownloadFetch
    \/ DecDerived
    \/ DecOpen
    \/ DownloadFinish
    \/ Dismiss

SpecEnter == ShareInit /\ [][EnterNext]_vars


(***************************************************************************)
(* The local adapter, storage.ts (specification SpecLocal): operations on  *)
(* the IndexedDB database, one request at a time.  Transactions whose      *)
(* scopes overlap run one after the other, so an operation begins when     *)
(* no transaction is open.  A request that fails rejects the operation's   *)
(* promise; its error event is not cancelled, so the transaction aborts.   *)
(***************************************************************************)
\* bound: the storeEncryptedFile calls of one behaviour
MaxStores == 2

\* the ids operations are called with: those randomUUID returns, and one
\* it never returns
LocalIds == 1..(MaxStores + 1)

\* the blobs handed to storeEncryptedFile: what encryptFile returns for a
\* file at an instant
LocalBlob(file, now) ==
    LET salt == generateSalt(1)
        e == [EncIdle EXCEPT !.file = file, !.password = Pw(97),
                             !.salt = salt, !.iv = generateIV(2),
                             !.key = deriveKey(Pw(97), salt),
                             !.fileBuffer = file.bytes,
                             !.checksum = calculateChecksum(file.bytes)]
    IN  EncryptFileResult(e, now)

LocalBlobs == {LocalBlob(file, 1) : file \in UploadFiles}

\* Date.prototype.toISOString of a timestamp
toISOString(timestamp) == [iso8601 |-> timestamp]

\* storeEncryptedFile, the object added to encrypted_files
FileRecordOf(fileId, encryptedFile) ==
    [id |-> fileId,
     encryptedData |-> encryptedFile.encryptedData,
     iv |-> encryptedFile.iv,
     salt |-> encryptedFile.salt,
     authTag |-> encryptedFile.authTag,
     filename |-> encryptedFile.filename,
     originalSize |-> encryptedFile.originalSize,
     timestamp |-> encryptedFile.timestamp,
     checksum |-> encryptedFile.checksum]

\* storeEncryptedFile, the object added to file_metadata
MetadataOf(fileId, encryptedFile) ==
    [id |-> fileId,
     filename |-> encryptedFile.filename,
     size |-> encryptedFile.originalSize,
     uploadDate |-> toISOString(encryptedFile.timestamp),
     encrypted |-> TRUE,
     checksum |-> encryptedFile.checksum]

\* getEncryptedFile, const { id, ...encryptedFile } = result
WithoutId(result) == [f \in DOMAIN result \ {"id"} |-> result[f]]

localRest == <<clock, sharing, suspended, selectedFile, password, enc, blobs, dec, appVars>>

\* an operation rejects before its transaction or at a request: nothing
\* the transaction's requests did is kept
Abort(op, fileId) ==
    idb' = [idb EXCEPT !.transaction = NoTransaction,
                       !.result = [NoResult EXCEPT !.op = op, !.id = fileId,
                                                   !.error = "rejected"]]

\* storeEncryptedFile up to its first request: the database is opened, the
\* id drawn, the transaction on both stores opened and add called on
\* encrypted_files
StoreBegin ==
    /\ idb.transaction.mode = "none"
    /\ rngCount < MaxStores
    /\ rngCount' = rngCount + 1
    /\ \E encryptedFile \in LocalBlobs, openError \in BOOLEAN :
         LET fileId == rngCount + 1 IN
         IF openError THEN Abort("store", 0)
         ELSE idb' = [idb EXCEPT
                        !.transaction = [mode |-> "store", pc |-> "filesStore",
                                         id |-> fileId, file |-> encryptedFile,
                                         encrypted_files |-> idb.encrypted_files,
                                         file_metadata |-> idb.file_metadata]]
    /\ UNCHANGED localRest

\* the add on encrypted_files settled: add is called on file_metadata, or
\* the operation rejects
StoreFile ==
    /\ idb.transaction.mode = "store"
    /\ idb.transaction.pc = "filesStore"
    /\ \E error \in BOOLEAN :
         LET t == idb.transaction IN
         IF error THEN Abort("store", t.id)
         ELSE idb' = [idb EXCEPT
                        !.transaction.pc = "metadataStore",
                        !.transaction.encrypted_files =
                            @ \cup {FileRecordOf(t.id, t.file)}]
    /\ UNCHANGED <<rngCount, localRest>>

\* mutant of StoreMetadata: a failed add on file_metadata rejects the
\* operation, and the transaction commits what its first request did
StoreMetadata_NoRollback ==
    /\ idb.transaction.mode = "store"
    /\ idb.transaction.pc = "metadataStore"
    /\ \E error \in BOOLEAN :
         LET t == idb.transaction IN
         IF error
         THEN idb' = [idb EXCEPT
                        !.encrypted_files = t.encrypted_files,
                        !.transaction = NoTransaction,
                        !.result = [NoResult EXCEPT !.op = "store", !.id = t.id,
                                                    !.error = "rejected"]]
         ELSE idb' = [idb EXCEPT
                        !.encrypted_files = t.encrypted_files,
                        !.file_metadata = t.file_metadata
                                              \cup {MetadataOf(t.id, t.file)},
                        !.transaction = NoTransaction,
                        !.result = [NoResult EXCEPT !.op = "store", !.id = t.id],
                        !.given = @ \cup {[id |-> t.id, file |-> t.file]}]
    /\ UNCHANGED <<rngCount, localRest>>

\* the add on file_metadata settled: the id is returned and the
\* transaction commits, or the operation rejects
StoreMetadata ==
    /\ idb.transaction.mode = "store"
    /\ idb.transaction.pc = "metadataStore"
    /\ \E error \in BOOLEAN :
         LET t == idb.transaction IN
         IF error THEN Abort("store", t.id)
         ELSE idb' = [idb EXCEPT
                        !.encrypted_files = t.encrypted_files,
                        !.file_metadata = t.file_metadata
                                              \cup {MetadataOf(t.id, t.file)},
                        !.transaction = NoTransaction,
                        !.result = [NoResult EXCEPT !.op = "store", !.id = t.id],
                        !.given = @ \cup {[id |-> t.id, file |-> t.file]}]
    /\ UNCHANGED <<rngCount, localRest>>

\* mutant of getEncryptedFile: the stored object returned with its id
getEncryptedFile_WithId(fileId) ==
    LET found == {r \in idb.encrypted_files : r.id = fileId} IN
    IF found = {}
    THEN [NoResult EXCEPT !.op = "get", !.id = fileId]
    ELSE [NoResult EXCEPT !.op = "get", !.id = fileId, !.found = TRUE,
                          !.file = CHOOSE r \in found : TRUE]

\* getEncryptedFile: the object stored under the id without its id, null
\* when there is none
getEncryptedFile(fileId) ==
    LET found == {r \in idb.encrypted_files : r.id = fileId} IN
    IF found = {}
    THEN [NoResult EXCEPT !.op = "get", !.id = fileId]
    ELSE [NoResult EXCEPT !.op = "get", !.id = fileId, !.found = TRUE,
                          !.file = WithoutId(CHOOSE r \in found : TRUE)]

GetEncryptedFile ==
    /\ idb.transaction.mode = "none"
    /\ \E fileId \in LocalIds, error \in BOOLEAN :
         idb' = [idb EXCEPT !.result =
                    IF error
                    THEN [NoResult EXCEPT !.op = "get", !.id = fileId,
                                          !.error = "rejected"]
                    ELSE getEncryptedFile(fileId)]
    /\ UNCHANGED <<rngCount, localRest>>

\* deleteEncryptedFile or clearAllFiles up to its first request: the
\* database is opened, the transaction on both stores opened and both
\* requests placed
RemoveBegin ==
    /\ idb.transaction.mode = "none"
    /\ \E mode \in {"delete", "clear"}, fileId \in LocalIds, openError \in BOOLEAN :
         LET id == IF mode = "delete" THEN fileId ELSE 0 IN
         /\ mode = "clear" => fileId = 1
         /\ IF openError THEN Abort(mode, id)
            ELSE idb' = [idb EXCEPT
                           !.transaction = [mode |-> mode, pc |-> "filesStore",
                                            id |-> id, file |-> NoBlob,
                                            encrypted_files |-> idb.encrypted_files,
                                            file_metadata |-> idb.file_metadata]]
    /\ UNCHANGED <<rngCount, localRest>>

\* what a delete or clear request leaves of a store
Remaining(store, mode, fileId) ==
    IF mode = "clear" THEN {} ELSE {r \in store : r.id # fileId}

\* the request on encrypted_files settled
RemoveFile ==
    /\ idb.transaction.mode \in {"delete", "clear"}
    /\ idb.transaction.pc = "filesStore"
    /\ \E error \in BOOLEAN :
         LET t == idb.transaction IN
         IF error THEN Abort(t.mode, t.id)
         ELSE idb' = [idb EXCEPT
                        !.transaction.pc = "metadataStore",
                        !.transaction.encrypted_files = Remaining(@, t.mode, t.id)]
    /\ UNCHANGED <<rngCount, localRest>>

\* the request on file_metadata settled: the operation resolves and the
\* transaction commits, or the operation rejects
RemoveMetadata ==
    /\ idb.transaction.mode \in {"delete", "clear"}
    /\ idb.transaction.pc = "metadataStore"
    /\ \E error \in BOOLEAN :
         LET t == idb.transaction IN
         IF error THEN Abort(t.mode, t.id)
         ELSE idb' = [idb EXCEPT
                        !.encrypted_files = t.encrypted_files,
                        !.file_metadata = Remaining(t.file_metadata, t.mode, t.id),
                        !.transaction = NoTransaction,
                        !.result = [NoResult EXCEPT !.op = t.mode, !.id = t.id],
                        !.given = Remaining(@, t.mode, t.id)]
    /\ UNCHANGED <<rngCount, localRest>>

\* nothing stored, no one signed in
LocalInit == AppInit /\ user = "" /\ bytea_output = "hex"

LocalNext ==
    \/ StoreBegin
    \/ StoreFile
    \/ StoreMetadata
    \/ GetEncryptedFile
    \/ RemoveBegin
    \/ RemoveFile
    \/ RemoveMetadata

SpecLocal == LocalInit /\ [][LocalNext]_vars


(***************************************************************************)
(* Properties of the encryption engine (specification Spec)                *)
(***************************************************************************)
\* the encryptFile call whose blob the current decryptFile call was given
Source == blobs[dec.src]

\* what every failed decryptFile call throws
AuthenticationFailure ==
    [kind |-> "thrown", bytes |-> <<>>, name |-> "", type |-> "",
     error |-> "Failed to decrypt file - incorrect password or corrupted data"]

DirectDone == dec.caller = "direct" /\ DecFinished

\* C1 (round trip): decryptFile applied to what encryptFile returned, with
\* the password given to encryptFile, returns a file with the bytes and the
\* name of the file that was encrypted; the empty file included.
C1_RoundTrip ==
    (DirectDone /\ dec.tampering = Untouched /\ dec.password = Source.password)
        => /\ dec.outcome.kind = "returned"
           /\ dec.outcome.bytes = Source.file.bytes
           /\ dec.outcome.name = Source.file.name

\* an empty file has been encrypted and decrypted with the same password
C1_Witness ==
    /\ DirectDone /\ dec.tampering = Untouched /\ dec.password = Source.password
    /\ Source.file.bytes = <<>>
    /\ dec.outcome.kind = "returned"

C4_TamperDetected ==
    (DirectDone /\ dec.tampering.field \in {"encryptedData", "authTag", "iv"}
       /\ dec.password = Source.password)
        => /\ dec.outcome = AuthenticationFailure
           /\ ~dec.tagVerified

\* a blob whose tag had one bit inverted has been through decryptFile
C4_Witness ==
    /\ DirectDone /\ dec.tampering.field = "authTag"
    /\ dec.password = Source.password
    /\ dec.encryptedFile.authTag # Source.blob.authTag
    /\ dec.outcome.kind = "thrown"

\* C5 as stated (nonce/salt uniqueness): no two blobs share a salt or a
\* nonce, and two encryptions of the same plaintext under the same password
\* have different ciphertexts.
C5_DifferentCiphertexts ==
    \A i, j \in 1..Len(blobs) :
        i # j => /\ blobs[i].blob.salt # blobs[j].blob.salt
                 /\ blobs[i].blob.iv # blobs[j].blob.iv
                 /\ (blobs[i].file.bytes = blobs[j].file.bytes
                       /\ blobs[i].password = blobs[j].password)
                      => blobs[i].blob.encryptedData # blobs[j].blob.encryptedData

\* C5 as amended: the salt and the nonce of every blob are two values
\* drawn one after the other, no two blobs share a salt or a nonce,
\* and two encryptions of the same plaintext under the same password differ
\* in the authTag; the ciphertexts differ in length when the plaintexts do,
\* and are both empty when the plaintext is empty.
C5_FreshSaltAndNonce ==
    /\ \A i \in 1..Len(blobs) :
          /\ \E k \in 1..rngCount :
                /\ blobs[i].blob.salt = RandomValues(SaltLen, k)
                /\ blobs[i].blob.iv = RandomValues(IvLen, k + 1)
          /\ Len(blobs[i].file.bytes) = 0 => blobs[i].blob.encryptedData = <<>>
    /\ \A i, j \in 1..Len(blobs) :
          i # j => /\ blobs[i].blob.salt # blobs[j].blob.salt
                   /\ blobs[i].blob.iv # blobs[j].blob.iv
                   /\ (blobs[i].file.bytes = blobs[j].file.bytes
                         /\ blobs[i].password = blobs[j].password)
                        => blobs[i].blob.authTag # blobs[j].blob.authTag

\* the same file has been encrypted twice with the same password
C5_Witness ==
    /\ Len(blobs) >= 2
    /\ blobs[1].file = blobs[2].file
    /\ blobs[1].password = blobs[2].password

\* C6 (integrity failure is distinct): when the tag has verified and the
\* recomputed checksum differs from the stored one, decryptFile throws an
\* error other than the authentication failure.
C6_IntegrityFailureDistinct ==
    (DirectDone /\ dec.tagVerified /\ dec.outcome.kind = "thrown")
        => dec.outcome.error # AuthenticationFailure.error

\* C7 (uniform authentication failure): a decryptFile call that fails
\* because of a wrong password, a corrupted ciphertext or a corrupted tag
\* throws one and the same value, so no two such calls can be told apart.
C7_UniformFailure ==
    (DirectDone /\ dec.outcome.kind = "thrown"
       /\ \/ dec.tampering.field \in {"encryptedData", "authTag"}
          \/ dec.tampering = Untouched)
        => dec.outcome = AuthenticationFailure

\* a call failed on a corrupted ciphertext
C7_Witness ==
    /\ DirectDone /\ dec.outcome.kind = "thrown"
    /\ dec.tampering.field = "encryptedData"

\* C8 (verify before return): a file is returned only when the tag has
\* verified and, after that, the checksum of the recovered plaintext has
\* been found equal to the stored one; the checksum is looked at only after
\* the tag has verified; a call that has failed, or has not finished,
\* carries no plaintext in its outcome.
C8_VerifiedBeforeReturn ==
    /\ dec.outcome.kind = "returned" =>
          /\ dec.pc = "returned"
          /\ dec.tagVerified /\ dec.checksumVerified
          /\ AesGcmDecrypt(dec.key, dec.encryptedFile.iv, dec.fullEncryptedData).ok
          /\ calculateChecksum(dec.outcome.bytes) = dec.encryptedFile.checksum
    /\ dec.pc = "calculateChecksum" => dec.tagVerified
    /\ dec.checksumVerified => dec.tagVerified
    /\ dec.outcome.kind # "returned" => dec.outcome.bytes = <<>>

\* a call has failed after its tag had verified
C8_Witness ==
    /\ dec.pc = "thrown" /\ dec.tagVerified /\ ~dec.checksumVerified
    /\ dec.decryptedData # <<>>

Call == fileList.call

\* the encryptFile call whose blob was stored as the row being downloaded
Uploaded == blobs[origin[Call.fileId]]

\* getEncryptedFileFromDB has settled for a row of the table, its selects
\* without an error
FetchedStoredRow ==
    /\ Call.pc \in {"decryptFile", "done"}
    /\ Call.fileId \in 1..Len(encrypted_files)
    /\ Call.fetched.kind # "null"
    /\ Call.fetched.error \notin {"Failed to fetch encrypted file",
                                  "Failed to fetch encrypted file data"}

\* C2 (end to end through the remote storage adapter): a download, with the
\* password of the upload, of a file that handleUpload stored ends with the
\* file decrypted: the bytes and the name of the uploaded file are handed
\* to the browser.
C2_EndToEnd ==
    (FetchedStoredRow /\ Call.pc = "done" /\ Call.password = Uploaded.password)
        => /\ Call.outcome.kind = "returned"
           /\ Call.outcome.bytes = Uploaded.file.bytes
           /\ Call.outcome.name = Uploaded.file.name
           /\ saved = Uploaded.file

\* C10 (binary fields cross the storage boundary byte-exact): for a blob
\* stored by storeEncryptedFileInDB, getEncryptedFileFromDB returns a blob
\* whose encryptedData, iv, salt and authTag equal the stored ones.
C10_ByteExact ==
    FetchedStoredRow
        => /\ Call.fetched.kind = "blob"
           /\ Call.fetched.blob.encryptedData = Uploaded.blob.encryptedData
           /\ Call.fetched.blob.iv = Uploaded.blob.iv
           /\ Call.fetched.blob.salt = Uploaded.blob.salt
           /\ Call.fetched.blob.authTag = Uploaded.blob.authTag


\* C11 (the authTag crosses the storage boundary): the authTag of the blob
\* getEncryptedFileFromDB returns for a stored row equals the authTag that
\* encryptFile produced for it.
C11_AuthTagReturned ==
    (FetchedStoredRow /\ Call.fetched.kind = "blob")
        => Call.fetched.blob.authTag = Uploaded.blob.authTag

\* C12 (the checksum travels with the blob): the checksum of the blob that
\* a download hands to decryptFile equals the checksum encryptFile computed
\* over the plaintext.
C12_ChecksumTravels ==
    (dec.caller = "download" /\ dec.pc # "idle")
        => dec.encryptedFile.checksum = blobs[dec.src].blob.checksum


(***************************************************************************)
(* Further properties of the encryption engine (specification Spec)        *)
(***************************************************************************)
\* C13 (checksum stability): whenever decryptFile has returned a file, the
\* checksum stored in the blob it was given equals the checksum computed
\* over the bytes of the returned file.
C13_ChecksumStable ==
    dec.outcome.kind = "returned"
        => calculateChecksum(dec.outcome.bytes) = dec.encryptedFile.checksum

\* decryptFile has returned a file that is not empty
C13_Witness ==
    /\ DirectDone /\ dec.outcome.kind = "returned"
    /\ dec.outcome.bytes # <<>>
    /\ dec.encryptedFile.checksum = Source.blob.checksum

\* C14 (size fidelity): the originalSize of every blob encryptFile returned
\* is the byte length of the encrypted file, and is the byte length of the
\* plaintext a successful decryptFile of the blob returns.
C14_SizeFidelity ==
    /\ \A i \in 1..Len(blobs) : blobs[i].blob.originalSize = Len(blobs[i].file.bytes)
    /\ (DirectDone /\ dec.outcome.kind = "returned")
          => Source.blob.originalSize = Len(dec.outcome.bytes)

\* a blob of a file of at least one byte has been decrypted
C14_Witness ==
    /\ DirectDone /\ dec.outcome.kind = "returned"
    /\ Source.blob.originalSize >= 1

\* C15 (ciphertext length): the encryptedData of every blob encryptFile
\* returned is exactly as long as the plaintext, the empty one included.
C15_CiphertextLength ==
    \A i \in 1..Len(blobs) : Len(blobs[i].blob.encryptedData) = Len(blobs[i].file.bytes)

\* encryptFile has returned the blob of a file that is not empty
C15_Witness ==
    \E i \in 1..Len(blobs) :
        /\ blobs[i].file.bytes # <<>>
        /\ Len(blobs[i].blob.encryptedData) >= 1

\* C16 (field sizes): every blob encryptFile returned has an authTag of 16
\* bytes, an iv of 12 bytes and a salt of 32 bytes, for the empty plaintext
\* too.
C16_FieldSizes ==
    \A i \in 1..Len(blobs) :
        /\ Len(blobs[i].blob.authTag) = 16
        /\ Len(blobs[i].blob.iv) = 12
        /\ Len(blobs[i].blob.salt) = 32

\* encryptFile has returned the blob of an empty file
C16_Witness ==
    \E i \in 1..Len(blobs) :
        /\ blobs[i].file.bytes = <<>>
        /\ Len(blobs[i].blob.authTag) = TagLen


\* C17 (deriveKey is deterministic): the key decryptFile derives from the
\* stored salt and the original password is the key the encryptFile call
\* derived from them and encrypted with.
C17_SameKey ==
    (dec.caller = "direct" /\ dec.pc \notin {"idle", "deriveKey"}
       /\ dec.encryptedFile.salt = Source.blob.salt
       /\ dec.password = Source.password)
        => /\ dec.key = Source.key
           /\ Len(dec.key.bits) * 8 = KeyLength

\* decryptFile has derived its key from the stored salt and the original
\* password
C17_Witness ==
    /\ dec.caller = "direct" /\ dec.pc = "decrypt"
    /\ dec.encryptedFile.salt = Source.blob.salt
    /\ dec.password = Source.password
    /\ Len(dec.key.bits) * 8 = KeyLength

(***************************************************************************)
(* C18: no partial blob on failure                                         *)
(***************************************************************************)
\* a blob with every field encryptFile computes: ciphertext of the length
\* of the content, tag, nonce and salt of their sizes, the checksum and the
\* metadata of the file
CompleteBlob(b) ==
    /\ Len(b.blob.encryptedData) = Len(b.file.bytes)
    /\ Len(b.blob.authTag) = TagLen
    /\ Len(b.blob.iv) = IvLen
    /\ Len(b.blob.salt) = SaltLen
    /\ b.blob.checksum = calculateChecksum(b.file.bytes)
    /\ b.blob.filename = b.file.name
    /\ b.blob.originalSize = Len(b.file.bytes)

\* a step in which a call of encryptFile fails
EncryptFails == enc.pc \notin {"idle", "thrown"} /\ enc'.pc = "thrown"

\* C18 (no partial blob on failure): every blob encryptFile has returned is
\* complete and every stored row was inserted from such a blob, one row per
\* blob at most; a step in which encryptFile fails returns no blob; from a
\* failed call neither a blob nor a row comes; and a row is inserted only
\* in a step that follows a return of encryptFile, from the blob returned.
C18_NoPartialBlob ==
    /\ [](/\ \A i \in 1..Len(blobs) : CompleteBlob(blobs[i])
          /\ Len(origin) = Len(encrypted_files)
          /\ \A i \in 1..Len(encrypted_files) :
                /\ origin[i] \in 1..Len(blobs)
                /\ encrypted_files[i] =
                      InsertedRow(blobs[origin[i]].blob, encrypted_files[i].user_id,
                                  encrypted_files[i].created_at)
                /\ \A j \in 1..Len(encrypted_files) : origin[i] = origin[j] => i = j)
    /\ [][EncryptFails => blobs' = blobs /\ encrypted_files' = encrypted_files]_vars
    /\ [][enc.pc = "thrown" => blobs' = blobs /\ encrypted_files' = encrypted_files]_vars
    /\ [][encrypted_files' # encrypted_files
            => /\ enc.pc = "returned"
               /\ encrypted_files' =
                     Append(encrypted_files,
                            InsertedRow(blobs[Len(blobs)].blob, user, clock))]_vars

\* an upload whose encryptFile call failed has ended in the catch block
\* with the error thrown, nothing stored, after an earlier upload was stored
C18_Witness ==
    /\ toast.title = "Upload Failed"
    /\ toast.description \in {"NotReadableError", "OperationError"}
    /\ ~fileUpload.isUploading
    /\ Len(encrypted_files) = 1
    /\ Len(blobs) = 1

(***************************************************************************)
(* C19: overlapping invocations are independent (specification SpecConc)   *)
(***************************************************************************)
\* what decryptFile returns or throws when no other invocation runs
\* between its steps
DecryptAlone(encryptedFile, pw) ==
    LET key == deriveKey(pw, encryptedFile.salt)
        r == AesGcmDecrypt(key, encryptedFile.iv, FullEncryptedData(encryptedFile))
    IN  IF ~r.ok THEN CatchDecrypt("OperationError")
        ELSE IF ChecksumMatches(r.data, encryptedFile)
        THEN DecryptedFile(r.data, encryptedFile)
        ELSE CatchDecrypt(IntegrityMessage)

\* what encryptFile returns, with the salt and the nonce it drew, when no
\* other invocation runs between its steps
EncryptAlone(file, pw, salt, iv, now) ==
    EncryptFileResult([key |-> deriveKey(pw, salt), iv |-> iv, salt |-> salt,
                       fileBuffer |-> file.bytes, file |-> file,
                       checksum |-> calculateChecksum(file.bytes)], now)

\* C19 (concurrent invocations are independent): however the steps of
\* encryptFile and decryptFile invocations are interleaved, a decryptFile
\* invocation that has finished has the outcome decryptFile has on its
\* arguments when it runs alone, and the blob returned last (looked at
\* when neither function has an invocation at a step) is the blob
\* encryptFile returns alone for its file, its password and the salt and
\* nonce of two successive draws.
C19_Independent ==
    /\ dec.pc \in {"returned", "thrown"}
          => dec.outcome = DecryptAlone(dec.encryptedFile, dec.password)
    /\ (blobs # <<>> /\ enc.pc = "idle" /\ dec.pc = "idle") =>
          LET b == blobs[Len(blobs)] IN
          /\ b.blob = EncryptAlone(b.file, b.password, b.blob.salt, b.blob.iv, clock)
          /\ \E k \in 1..rngCount : /\ b.blob.salt = RandomValues(SaltLen, k)
                                    /\ b.blob.iv = RandomValues(IvLen, k + 1)

\* a decryptFile invocation has returned while another one, called with
\* the other password, waits between its deriveKey and its end, and an
\* encryptFile invocation is in progress
C19_Witness ==
    /\ dec.pc = "returned"
    /\ \E d \in suspended.dec : d.pc = "decrypt" /\ d.password # dec.password
    /\ EncAwaiting(enc)

(***************************************************************************)
(* C20: errors of collaborators (specification SpecApp)                    *)
(***************************************************************************)
\* C20 as stated (errors propagate unchanged): the error shown for a
\* failed upload or download is the error the collaborator raised.
C20_ErrorsUnchanged == toast.cause # "" => toast.description = toast.cause

\* a step that ends an upload or a download in its catch block
OperationFails ==
    /\ toast' # toast
    /\ toast'.title \in {"Upload Failed", "Download Failed"}

\* C20 as the code has it: what file.arrayBuffer() or a crypto call rejects
\* with leaves encryptFile, and what atob throws leaves
\* getEncryptedFileFromDB, as the same error, and that is what the catch
\* block shows; the error of the insert and the errors of the selects are
\* replaced by the storage adapter with an Error of a fixed message, and
\* "no row" by null, shown as 'File not found'; the step that failed is
\* not taken again: the operation ends in that catch block, nothing is
\* inserted and encryptFile is not called anew.
C20_ReadErrorsUnchanged ==
    /\ [](/\ enc.pc = "thrown" => enc.error = enc.raised
          /\ toast.cause \in {"NotReadableError", "OperationError", "InvalidCharacterError"}
                => toast.description = toast.cause
          /\ toast.cause = "42501" => toast.description = "Failed to store encrypted file"
          /\ toast.cause = "PGRST116" => toast.description = "File not found"
          /\ toast.cause = "other"
                => toast.description \in {"Failed to fetch encrypted file",
                                          "Failed to fetch encrypted file data"})
    /\ [][OperationFails
            => /\ ~fileUpload'.isUploading /\ ~fileList'.isDownloading
               /\ enc'.pc = "idle" /\ dec'.pc = "idle"
               /\ fileList'.call.pc \in {"idle", "done"}
               /\ encrypted_files' = encrypted_files
               /\ rngCount' = rngCount]_vars

\* an upload has ended in the catch block with the error file.arrayBuffer()
\* rejected with
C20_Witness ==
    /\ toast.title = "Upload Failed"
    /\ toast.cause = "NotReadableError"
    /\ toast.description = "NotReadableError"
    /\ ~fileUpload.isUploading
    /\ enc.pc = "idle"

(***************************************************************************)
(* C21: what an upload sends (specification SpecUpload)                    *)
(***************************************************************************)
\* the columns of a row that hold bytes
BinaryColumns == {"encrypted_data", "iv", "salt"}

\* secret bytes are in a row: as they are, or as the base64 text the
\* adapter sends
Holds(row, bytes) ==
    \E c \in BinaryColumns :
        \/ row[c] = bytes
        \/ row[c] = ByteaIn(btoa(FromCharCode(bytes)))

\* C21 (password and plaintext stay on the device): a stored row has the
\* columns of the insert and no other; none of them holds the password or
\* a non-empty plaintext; and two rows uploaded by the same user from the
\* same file, whatever the passwords, agree in every column but
\* encrypted_data, iv and salt.
C21_NothingSecretSent ==
    /\ \A i \in 1..Len(encrypted_files) :
          LET row == encrypted_files[i]
              b == blobs[origin[i]]
          IN  /\ DOMAIN row = {"user_id", "filename", "file_size", "mime_type",
                               "created_at"} \cup BinaryColumns
              /\ ~Holds(row, TextEncode(b.password))
              /\ b.file.bytes # <<>> => ~Holds(row, b.file.bytes)
              /\ row.filename = b.file.name
              /\ row.file_size = Len(b.file.bytes)
    /\ \A i, j \in 1..Len(encrypted_files) :
          blobs[origin[i]].file = blobs[origin[j]].file
              => \A c \in DOMAIN encrypted_files[i] \ BinaryColumns :
                    encrypted_files[i][c] = encrypted_files[j][c]

\* the same non-empty file has been uploaded twice, with two passwords
C21_Witness ==
    \E i, j \in 1..Len(encrypted_files) :
        /\ blobs[origin[i]].file = blobs[origin[j]].file
        /\ blobs[origin[i]].file.bytes # <<>>
        /\ blobs[origin[i]].password # blobs[origin[j]].password
        /\ encrypted_files[i].salt # encrypted_files[j].salt


(***************************************************************************)
(* Properties of sharing (specification SpecShare)                         *)
(***************************************************************************)
\* the shares that give the signed-in user access to the file of the
\* current handleDownload execution, the user not being its owner
SharesUsed ==
    {k \in 1..Len(sharing.file_shares) :
        /\ sharing.file_shares[k].file_id = fileList.call.fileId
        /\ sharing.file_shares[k].owner_id # user
        /\ \/ sharing.file_shares[k].recipient_id = user
           \/ sharing.file_shares[k].recipient_email = Email(user)}

\* the select of getEncryptedFileFromDB has returned the file's row to the
\* current handleDownload execution
RowReturned ==
    \/ fileList.call.fetched.kind = "blob"
    \/ fileList.call.fetched.raised = "InvalidCharacterError"

\* C22: when the share has an access password, the recipient's download
\* has the shared blob fetched, and decryptFile called on it, only after
\* verifySharePassword has returned true for that share.
C22_VerifiedBeforeFetch ==
    \A k \in SharesUsed :
        (sharing.file_shares[k].access_password # "" /\ RowReturned)
            => k \in sharing.verified

\* the shares that name the signed-in user as recipient
SharesWith ==
    {k \in 1..Len(sharing.file_shares) :
        /\ sharing.file_shares[k].owner_id # user
        /\ \/ sharing.file_shares[k].recipient_id = user
           \/ sharing.file_shares[k].recipient_email = Email(user)}

\* C23: a share with an expiry gives access only until then: a list loaded
\* after expires_at does not show the shared file to the recipient, and a
\* fetch after expires_at does not return its row; a share without expiry
\* is in every list the recipient loads.
C23_ExpiredShareEnds ==
    /\ \A f \in sharing.files :
          (f.access_type = "shared" /\ f.expires_at # 0)
              => sharing.loadedAt <= f.expires_at
    /\ \A k \in SharesUsed :
          (sharing.file_shares[k].expires_at # 0 /\ RowReturned)
              => fileList.call.fetchedAt <= sharing.file_shares[k].expires_at
    /\ \A k \in SharesWith :
          (sharing.file_shares[k].expires_at = 0 /\ sharing.loadedAt > 0)
              => \E f \in sharing.files : f.share_id = k


(***************************************************************************)
(* Properties of the upload form (specification SpecUpload)                *)
(***************************************************************************)
\* the password typed passes validatePassword
ValidForm ==
    /\ Len(password) >= MinPasswordLen
    /\ password = fileUpload.confirmPassword

ValidationTitles == {"Weak Password", "Password Mismatch"}

\* C24: an upload is in progress, encryptFile runs for it and a row is
\* stored only with a password of at least 8 characters that equals its
\* confirmation; a step that shows a validation toast calls neither
\* encryptFile nor storeEncryptedFileInDB and leaves isUploading and
\* uploadProgress as they were, and handleUpload on a form that does not
\* validate is such a step.
C24_UploadNeedsValidPassword ==
    /\ [](fileUpload.isUploading => ValidForm)
    /\ [](EncAwaiting(enc) => ValidForm /\ enc.password = password)
    /\ [](\A i \in 1..Len(blobs) : Len(blobs[i].password) >= MinPasswordLen)
    /\ [][toast'.title \in ValidationTitles
            => /\ UNCHANGED <<rngCount, enc, blobs, encrypted_files, origin>>
               /\ fileUpload'.isUploading = fileUpload.isUploading
               /\ fileUpload'.uploadProgress = fileUpload.uploadProgress
               /\ ~(Len(password') >= MinPasswordLen
                     /\ password' = fileUpload'.confirmPassword)]_vars
    /\ [][(toast = NoToast /\ selectedFile' # NullFile
             /\ ~(Len(password') >= MinPasswordLen
                   /\ password' = fileUpload'.confirmPassword))
            => toast'.title \in ValidationTitles]_vars

\* handleUpload has refused a form: the toast is shown, nothing is running
C24_Witness ==
    /\ toast.title = "Weak Password"
    /\ password = ShortPassword
    /\ enc = EncIdle
    /\ ~fileUpload.isUploading
    /\ encrypted_files # <<>>


(***************************************************************************)
(* Properties of the local adapter (specification SpecLocal)               *)
(***************************************************************************)
Ids(store) == {r.id : r \in store}

EncOrder ==
    {<<"deriveKey", "arrayBuffer">>, <<"arrayBuffer", "calculateChecksum">>,
     <<"calculateChecksum", "encrypt">>}

\* C26 as stated: the nonce is generated after the key has been derived,
\* the plaintext read and the checksum computed, immediately before
\* sealing: while encryptFile runs, a nonce exists only at the seal step.
C26_NonceBeforeSeal ==
    (EncAwaiting(enc) /\ enc.iv # <<>>)
        => /\ enc.pc = "encrypt"
           /\ enc.key # NoKey
           /\ enc.checksum # <<>>

\* C26 amended: encryptFile draws the salt, then the nonce, then derives
\* the key, reads the plaintext, computes the checksum, seals and
\* assembles: salt and nonce are drawn in this order when it is called
\* and kept to the end; its awaits follow one another in this order; at
\* each one the results of the earlier steps are there and those of the
\* later ones are not; a blob is returned only from the seal step, with
\* the salt and the nonce drawn at the call.
C26_StepOrder ==
    /\ [](EncAwaiting(enc) => Len(enc.salt) = SaltLen /\ Len(enc.iv) = IvLen)
    /\ [](enc.pc = "deriveKey" => enc.key = NoKey /\ enc.checksum = <<>>)
    /\ [](enc.pc = "arrayBuffer" => enc.key # NoKey /\ enc.checksum = <<>>)
    /\ [](enc.pc = "calculateChecksum"
            => enc.key # NoKey /\ enc.fileBuffer = enc.file.bytes /\ enc.checksum = <<>>)
    /\ [](enc.pc = "encrypt" => enc.key # NoKey /\ enc.checksum # <<>>)
    /\ [][(~EncAwaiting(enc) /\ EncAwaiting(enc'))
            => /\ enc'.pc = "deriveKey"
               /\ enc'.salt = generateSalt(rngCount + 1)
               /\ enc'.iv = generateIV(rngCount + 2)
               /\ rngCount' = rngCount + 2]_vars
    /\ [][(EncAwaiting(enc) /\ EncAwaiting(enc') /\ enc'.pc # enc.pc)
            => /\ <<enc.pc, enc'.pc>> \in EncOrder
               /\ enc'.salt = enc.salt
               /\ enc'.iv = enc.iv
               /\ rngCount' = rngCount]_vars
    /\ [][blobs' # blobs
            => /\ enc.pc = "encrypt"
               /\ blobs'[Len(blobs')].blob.salt = enc.salt
               /\ blobs'[Len(blobs')].blob.iv = enc.iv]_vars

\* encryptFile waits for deriveKey with salt and nonce drawn, after an
\* earlier call has returned its blob
C26_Witness ==
    /\ enc.pc = "deriveKey"
    /\ Len(enc.iv) = IvLen
    /\ enc.key = NoKey
    /\ blobs # <<>>


\* C27: the buffer decryptFile joins from encryptedData and authTag of an
\* untouched blob is, byte for byte, the AES-GCM output encryptFile split:
\* encryptedData is all of it but the last 16 bytes, authTag the last 16.
C27_SplitRejoin ==
    (dec.pc = "decrypt" /\ dec.tampering = Untouched)
        => LET sealed == AesGcmEncrypt(Source.key, Source.blob.iv, Source.file.bytes)
               n == Len(sealed)
           IN  /\ n = Len(Source.file.bytes) + TagLen
               /\ Source.blob.encryptedData = SubSeq(sealed, 1, n - TagLen)
               /\ Source.blob.authTag = SubSeq(sealed, n - TagLen + 1, n)
               /\ dec.fullEncryptedData = sealed

\* decryptFile has joined the buffer of an untouched blob of a plaintext
\* of two bytes or more
C27_Witness ==
    /\ dec.pc = "decrypt"
    /\ dec.tampering = Untouched
    /\ Len(Source.file.bytes) >= 2
    /\ dec.fullEncryptedData # <<>>


(***************************************************************************)
(* Properties of storeEncryptedFileInDB (specification SpecUpload)         *)
(***************************************************************************)
\* C30: with no user signed in storeEncryptedFileInDB throws 'User not
\* authenticated' and inserts nothing; every row of encrypted_files has
\* the id of the signed-in user as its user_id.
C30_RowsOfTheUser ==
    /\ [](\A i \in 1..Len(encrypted_files) :
            user # "" /\ encrypted_files[i].user_id = user)
    /\ [](toast.description = "User not authenticated" => user = "")
    /\ [][(enc.pc = "returned" /\ enc'.pc = "idle" /\ user = "")
            => /\ toast'.title = "Upload Failed"
               /\ toast'.description = "User not authenticated"
               /\ encrypted_files' = encrypted_files]_vars
    /\ [][encrypted_files' # encrypted_files
            => /\ enc.pc = "returned"
               /\ encrypted_files' =
                      Append(encrypted_files,
                             InsertedRow(blobs[Len(blobs)].blob, user, clock))]_vars

\* storeEncryptedFileInDB has thrown for want of a user, after encryptFile
\* had returned a blob
C30_Witness ==
    /\ user = ""
    /\ toast.description = "User not authenticated"
    /\ blobs # <<>>
    /\ encrypted_files = <<>>


(***************************************************************************)
(* Properties of the download controls (specification SpecEnter)           *)
(***************************************************************************)
\* the handleDownload executions in flight
DownloadsInFlight ==
    Cardinality(suspended.download) + (IF InFlight(fileList.call) THEN 1 ELSE 0)

\* C29: at most one download is in flight: while isDownloading is true no
\* second handleDownload starts, from the button or from the Enter key.
C29_OneDownload == DownloadsInFlight <= 1

=============================================================================
